---- MODULE Spec2Model ----
(***************************************************************************)
(* Model of the Stripe Terraform provider's resource handlers: coupon,     *)
(* plan, price, product, tax rate and webhook endpoint, each with Create,  *)
(* Read, Update and Delete.                                                *)
(*                                                                         *)
(* d    the resource data Terraform keeps for the managed resource: its    *)
(*      kind, its ID and its attributes.  An attribute is <<>> (not set)   *)
(*      or <<v>> (set to v), so "set to the zero value" and "not set" are  *)
(*      different, as they are for GetOk and GetOkExists.                  *)
(* srv  the object the remote API holds: <<>> or <<object>>.               *)
(* last what the last handler did: its result, the remote calls it made    *)
(*      (in order, with their parameter objects), the resource data at     *)
(*      its entry and at its return.                                       *)
(* todo the configuration Terraform has planned to create in place of a    *)
(*      resource it has just destroyed for replacement: <<>> or <<cfg>>.   *)
(*                                                                         *)
(* A parameter object has one entry per pointer field of the stripe-go     *)
(* struct: <<>> is nil, <<v>> is a pointer to v.  float64 values are       *)
(* written as integers (hundredths).                                       *)
(***************************************************************************)
EXTENDS Integers, Sequences, FiniteSets, TLC

VARIABLES d, srv, last, todo

vars == <<d, srv, last, todo>>

None == <<>>

Some(v) == <<v>>

\* d.Get: the value, or the type's zero value when the attribute is not set.
Get(x, zero) == IF x = None THEN zero ELSE x[1]

\* d.GetOk: ok only when the attribute is set to a non-zero value.
GetOk(x, zero) == x # None /\ x[1] # zero

\* d.GetOkExists: ok when the attribute is set, to zero or not.
GetOkExists(x) == x # None

\* A change test that reports a change for every attribute.
HasChangeAlways(old, new, key, zero) == TRUE

\* A change test that reports every attribute that is set.
HasChangeOrSet(old, new, key, zero) == key \in DOMAIN new /\ new[key] # None

\* d.HasChange(key): the old and the new value differ.  A key the schema does
\* not have reads as nil on both sides, so it never has a change.
HasChange(old, new, key, zero) ==
    IF key \in DOMAIN new /\ key \in DOMAIN old
    THEN Get(old[key], zero) # Get(new[key], zero)
    ELSE FALSE

\* d.Set(key, val): stores val when its Go type decodes into the schema type
\* of key; otherwise Set returns an error (which the handlers drop) and the
\* attribute keeps the value it had.
dSet(attrs, types, key, val, valType) ==
    IF key \in DOMAIN types /\ types[key] = valType
    THEN [attrs EXCEPT ![key] = Some(val)]
    ELSE attrs

\* A handler's d.Set calls, in order: writes is a sequence of
\* <<key, value, Go type of the value>>.
RECURSIVE SetAll(_, _, _)
SetAll(attrs, types, writes) ==
    IF Len(writes) = 0
    THEN attrs
    ELSE SetAll(dSet(attrs, types, writes[1][1], writes[1][2], writes[1][3]),
                types, Tail(writes))

\* expandMetadata(d): the metadata attribute as a string map, never nil.
expandMetadata(attrs) == Get(attrs.metadata, {})

OkResult == [status |-> "ok", msg |-> ""]

ValidationError(msg) == [status |-> "validation", msg |-> msg]

\* diag.FromErr(err) of an error the API client returned.
RemoteError == [status |-> "remote", msg |-> "remote error"]

\* A call of the API client: what was asked, and whether the API answered
\* (ok) or returned an error.
Call(verb, kind, id, params, ok) ==
    [verb |-> verb, kind |-> kind, id |-> id, params |-> params, ok |-> ok]

\* What a handler hands back: the resource data, the remote object, the
\* diagnostics and the remote calls made.
Outcome(dd, s, result, calls) ==
    [d |-> dd, srv |-> s, result |-> result, calls |-> calls]

NoResource == [kind |-> "none", id |-> "", attrs |-> <<>>]

\* Terraform keeps the resource data a handler returns; a resource with an
\* empty ID is not kept.
Persist(kind, dd) ==
    IF dd.id = "" THEN NoResource
    ELSE [kind |-> kind, id |-> dd.id, attrs |-> dd.attrs]

\* Values the remote API assigns.
ServerCreated == 1700000000

----------------------------------------------------------------------------
(* Coupon                                                                  *)

CouponTypes ==
    [code |-> "string", amount_off |-> "int", currency |-> "string",
     duration |-> "string", duration_in_months |-> "int",
     max_redemptions |-> "int", metadata |-> "map", name |-> "string",
     percent_off |-> "float", redeem_by |-> "string", valid |-> "bool",
     created |-> "int", livemode |-> "bool", times_redeemed |-> "int"]

EmptyCouponParams ==
    [ID |-> None, Name |-> None, DurationInMonths |-> None, Duration |-> None,
     PercentOff |-> None, AmountOff |-> None, MaxRedemptions |-> None,
     Currency |-> None, RedeemBy |-> None, Metadata |-> None]

\* A duration table that also admits "weekly".
validDurationsLoose == {"repeating", "once", "forever", "weekly"}

validDurations == {"repeating", "once", "forever"}

\* time.Parse(time.RFC3339, s) on the strings the model uses, and the Unix
\* time of the result.
RFC3339Unix == [s \in {"2030-01-01T00:00:00Z"} |-> 1893456000]

ParseRFC3339Ok(s) == s \in DOMAIN RFC3339Unix

\* client.Coupons.New: the coupon the API stores for params.
CouponsNew(p) ==
    [ID |-> Get(p.ID, ""), AmountOff |-> Get(p.AmountOff, 0),
     Currency |-> Get(p.Currency, ""), Duration |-> Get(p.Duration, ""),
     DurationInMonths |-> Get(p.DurationInMonths, 0), Livemode |-> FALSE,
     MaxRedemptions |-> Get(p.MaxRedemptions, 0),
     Metadata |-> Get(p.Metadata, {}), Name |-> Get(p.Name, ""),
     PercentOff |-> Get(p.PercentOff, 0), RedeemBy |-> Get(p.RedeemBy, 0),
     TimesRedeemed |-> 0, Valid |-> TRUE, Created |-> ServerCreated]

\* client.Coupons.Update: only the parameters present change the coupon.
CouponsUpdate(c, p) ==
    [c EXCEPT !.Name = Get(p.Name, @), !.Metadata = Get(p.Metadata, @)]

resourceStripeCouponCreate(dd, s, net) ==
    LET a == dd.attrs
        couponDuration == Get(a.duration, "")
        p1 == [EmptyCouponParams EXCEPT !.ID = Some(Get(a.code, ""))]
        p2 == [p1 EXCEPT !.Name = IF GetOk(a.name, "") THEN a.name ELSE @]
        p3 == [p2 EXCEPT !.DurationInMonths =
                IF GetOk(a.duration_in_months, 0) THEN a.duration_in_months ELSE @]
        p4 == [p3 EXCEPT !.Duration =
                IF couponDuration # "" THEN Some(couponDuration) ELSE @]
        p5 == [p4 EXCEPT !.PercentOff =
                IF GetOk(a.percent_off, 0) THEN a.percent_off ELSE @]
        p6 == [p5 EXCEPT !.AmountOff =
                IF GetOk(a.amount_off, 0) THEN a.amount_off ELSE @]
        p7 == [p6 EXCEPT !.MaxRedemptions =
                IF GetOk(a.max_redemptions, 0) THEN a.max_redemptions ELSE @]
        p8 == [p7 EXCEPT !.Currency = IF GetOk(a.currency, "") THEN a.currency ELSE @]
        p9 == [p8 EXCEPT !.RedeemBy =
                IF GetOk(a.redeem_by, "") THEN Some(RFC3339Unix[a.redeem_by[1]]) ELSE @]
        params == [p9 EXCEPT !.Metadata = Some(expandMetadata(a))]
        coupon == CouponsNew(params)
    IN  IF couponDuration \notin validDurations
        THEN Outcome(dd, s, ValidationError("duration"), <<>>)
        ELSE IF GetOk(a.duration_in_months, 0) /\ couponDuration # "repeating"
        THEN Outcome(dd, s, ValidationError("duration_in_months"), <<>>)
        ELSE IF GetOk(a.currency, "") /\ p7.AmountOff = None
        THEN Outcome(dd, s, ValidationError("currency"), <<>>)
        ELSE IF GetOk(a.redeem_by, "") /\ ~ParseRFC3339Ok(a.redeem_by[1])
        THEN Outcome(dd, s, ValidationError("redeem_by"), <<>>)
        ELSE IF ~net
        THEN Outcome(dd, s, RemoteError, <<Call("create", "coupon", "", params, net)>>)
        ELSE Outcome([id |-> coupon.ID,
                      attrs |-> SetAll(a, CouponTypes,
                          << <<"valid", coupon.Valid, "bool">>,
                             <<"created", coupon.Created, "int">>,
                             <<"times_redeemed", coupon.TimesRedeemed, "int">>,
                             <<"livemode", coupon.Livemode, "bool">> >>)],
                     Some(coupon), OkResult,
                     <<Call("create", "coupon", "", params, net)>>)

resourceStripeCouponRead(dd, s, net, before) ==
    LET calls == Append(before, Call("get", "coupon", dd.id, EmptyCouponParams, net /\ s # None))
        coupon == s[1]
    IN  IF ~net \/ s = None
        THEN Outcome(dd, s, RemoteError, calls)
        ELSE Outcome([dd EXCEPT !.attrs = SetAll(dd.attrs, CouponTypes,
                          << <<"code", dd.id, "string">>,
                             <<"amount_off", coupon.AmountOff, "int">>,
                             <<"currency", coupon.Currency, "string">>,
                             <<"duration", coupon.Duration, "string">>,
                             <<"duration_in_months", coupon.DurationInMonths, "int">>,
                             <<"livemode", coupon.Livemode, "bool">>,
                             <<"max_redemptions", coupon.MaxRedemptions, "int">>,
                             <<"metadata", coupon.Metadata, "map">>,
                             <<"name", coupon.Name, "string">>,
                             <<"percent_off", coupon.PercentOff, "float">>,
                             <<"redeem_by", coupon.RedeemBy, "int">>,
                             <<"times_redeemed", coupon.TimesRedeemed, "int">>,
                             <<"valid", coupon.Valid, "bool">>,
                             <<"created", coupon.Valid, "bool">> >>)],
                     s, OkResult, calls)

\* An Update that returns after its update call without reading the coupon.
resourceStripeCouponUpdateNoRead(old, dd, s, net, netRead) ==
    LET a == dd.attrs
        p1 == [EmptyCouponParams EXCEPT !.Metadata =
                IF HasChange(old, a, "metadata", {})
                THEN Some(expandMetadata(a)) ELSE @]
        params == [p1 EXCEPT !.Name =
                IF HasChange(old, a, "name", "") THEN Some(Get(a.name, "")) ELSE @]
        calls == <<Call("update", "coupon", dd.id, params, net /\ s # None)>>
    IN  IF ~net \/ s = None
        THEN Outcome(dd, s, RemoteError, calls)
        ELSE Outcome(dd, Some(CouponsUpdate(s[1], params)), OkResult, calls)

resourceStripeCouponUpdate(old, dd, s, net, netRead) ==
    LET a == dd.attrs
        p1 == [EmptyCouponParams EXCEPT !.Metadata =
                IF HasChange(old, a, "metadata", {})
                THEN Some(expandMetadata(a)) ELSE @]
        params == [p1 EXCEPT !.Name =
                IF HasChange(old, a, "name", "") THEN Some(Get(a.name, "")) ELSE @]
        calls == <<Call("update", "coupon", dd.id, params, net /\ s # None)>>
    IN  IF ~net \/ s = None
        THEN Outcome(dd, s, RemoteError, calls)
        ELSE resourceStripeCouponRead(dd, Some(CouponsUpdate(s[1], params)), netRead, calls)

resourceStripeCouponDelete(dd, s, net) ==
    LET calls == <<Call("delete", "coupon", dd.id, EmptyCouponParams, net /\ s # None)>>
    IN  IF ~net \/ s = None
        THEN Outcome(dd, s, RemoteError, calls)
        ELSE Outcome([dd EXCEPT !.id = ""], None, OkResult, calls)

\* The configurations a coupon is created from.
CouponConfigs ==
    [code : {Some("SAVE")},
     amount_off : {None, Some(0), Some(500)},
     currency : {None, Some("usd")},
     duration : {Some("forever"), Some("once"), Some("repeating"), Some("weekly"), Some("")},
     duration_in_months : {None, Some(0), Some(3)},
     max_redemptions : {None, Some(10)},
     metadata : {None, Some({<<"env", "prod">>})},
     name : {None, Some("Spring")},
     percent_off : {None, Some(2550)},
     redeem_by : {None, Some("2030-01-01T00:00:00Z"), Some("tomorrow")},
     valid : {None}, created : {None}, livemode : {None}, times_redeemed : {None}]

CouponLifecycleConfigs ==
    {c \in CouponConfigs :
        /\ c.duration \in {Some("once"), Some("repeating")}
        /\ c.duration_in_months # Some(0)
        /\ c.max_redemptions = None /\ c.percent_off = None
        /\ c.redeem_by = None /\ c.name = None}

\* The plans an Update of a coupon is invoked with: the attributes that are
\* not force-new may change (a change of a force-new attribute replaces the
\* resource).
CouponPlans(attrs) ==
    {[attrs EXCEPT !.name = n, !.metadata = m] :
        n \in {None, Some("Spring"), Some("Summer")},
        m \in {None, Some({<<"env", "prod">>})}} \ {attrs}

----------------------------------------------------------------------------
(* Tax rate                                                                *)

TaxRateTypes ==
    [active |-> "bool", created |-> "int", description |-> "string",
     display_name |-> "string", inclusive |-> "bool", jurisdiction |-> "string",
     livemode |-> "bool", metadata |-> "map", percentage |-> "float"]

EmptyTaxRateParams ==
    [DisplayName |-> None, Inclusive |-> None, Percentage |-> None,
     Active |-> None, Description |-> None, Jurisdiction |-> None,
     Metadata |-> None]

\* client.TaxRates.New: the tax rate the API stores; a tax rate is active
\* unless the request says otherwise.
TaxRatesNew(p) ==
    [ID |-> "txr_1", Active |-> Get(p.Active, TRUE), Created |-> ServerCreated,
     Description |-> Get(p.Description, ""), DisplayName |-> Get(p.DisplayName, ""),
     Inclusive |-> Get(p.Inclusive, FALSE), Jurisdiction |-> Get(p.Jurisdiction, ""),
     Livemode |-> FALSE, Metadata |-> Get(p.Metadata, {}),
     Percentage |-> Get(p.Percentage, 0)]

TaxRatesUpdate(t, p) ==
    [t EXCEPT !.Active = Get(p.Active, @), !.Description = Get(p.Description, @),
              !.DisplayName = Get(p.DisplayName, @),
              !.Jurisdiction = Get(p.Jurisdiction, @),
              !.Metadata = Get(p.Metadata, @)]

resourceStripeTaxRateCreate(dd, s, net) ==
    LET a == dd.attrs
        p1 == [EmptyTaxRateParams EXCEPT
                  !.DisplayName = Some(Get(a.display_name, "")),
                  !.Inclusive = Some(Get(a.inclusive, FALSE)),
                  !.Percentage = Some(Get(a.percentage, 0))]
        p2 == [p1 EXCEPT !.Active = IF GetOk(a.active, FALSE) THEN a.active ELSE @]
        p3 == [p2 EXCEPT !.Description =
                IF GetOk(a.description, "") THEN a.description ELSE @]
        p4 == [p3 EXCEPT !.Jurisdiction =
                IF GetOk(a.jurisdiction, "") THEN a.jurisdiction ELSE @]
        params == [p4 EXCEPT !.Metadata = Some(expandMetadata(a))]
        tax == TaxRatesNew(params)
        calls == <<Call("create", "tax_rate", "", params, net)>>
    IN  IF ~net
        THEN Outcome(dd, s, RemoteError, calls)
        ELSE Outcome([id |-> tax.ID,
                      attrs |-> SetAll(a, TaxRateTypes,
                          << <<"display_name", tax.DisplayName, "string">>,
                             <<"inclusive", tax.Inclusive, "bool">>,
                             <<"percentage", tax.Percentage, "float">>,
                             <<"created", tax.Created, "int">>,
                             <<"livemode", tax.Livemode, "bool">> >>)],
                     Some(tax), OkResult, calls)

resourceStripeTaxRateRead(dd, s, net, before) ==
    LET calls == Append(before, Call("get", "tax_rate", dd.id, EmptyTaxRateParams, net /\ s # None))
        tax == s[1]
    IN  IF ~net \/ s = None
        THEN Outcome(dd, s, RemoteError, calls)
        ELSE Outcome([dd EXCEPT !.attrs = SetAll(dd.attrs, TaxRateTypes,
                          << <<"active", tax.Active, "bool">>,
                             <<"created", tax.Created, "int">>,
                             <<"description", tax.Description, "string">>,
                             <<"display_name", tax.DisplayName, "string">>,
                             <<"inclusive", tax.Inclusive, "bool">>,
                             <<"jurisdiction", tax.Jurisdiction, "string">>,
                             <<"livemode", tax.Livemode, "bool">>,
                             <<"metadata", tax.Metadata, "map">> >>)],
                     s, OkResult, calls)

resourceStripeTaxRateUpdate(old, dd, s, net, netRead) ==
    LET a == dd.attrs
        p1 == [EmptyTaxRateParams EXCEPT !.Active =
                IF HasChange(old, a, "active", FALSE)
                THEN Some(Get(a.active, FALSE)) ELSE @]
        p2 == [p1 EXCEPT !.Description =
                IF HasChange(old, a, "description", "")
                THEN Some(Get(a.description, "")) ELSE @]
        p3 == [p2 EXCEPT !.DisplayName =
                IF HasChange(old, a, "diplay_name", "")
                THEN Some(Get(a.display_name, "")) ELSE @]
        p4 == [p3 EXCEPT !.Jurisdiction =
                IF HasChange(old, a, "jurisdiction", "")
                THEN Some(Get(a.jurisdiction, "")) ELSE @]
        params == [p4 EXCEPT !.Metadata =
                IF HasChange(old, a, "metadata", {})
                THEN Some(expandMetadata(a)) ELSE @]
        calls == <<Call("update", "tax_rate", dd.id, params, net /\ s # None)>>
    IN  IF ~net \/ s = None
        THEN Outcome(dd, s, RemoteError, calls)
        ELSE resourceStripeTaxRateRead(dd, Some(TaxRatesUpdate(s[1], params)), netRead, calls)

\* A Delete that asks the API to delete the tax rate and drops the ID.
resourceStripeTaxRateDeleteRemote(dd, s) ==
    Outcome([dd EXCEPT !.id = ""], None, OkResult,
            <<Call("delete", "tax_rate", dd.id, EmptyTaxRateParams, TRUE)>>)

resourceStripeTaxRateDelete(dd, s) ==
    Outcome(dd, s, [status |-> "remediation", msg |-> "remove it manually"], <<>>)

TaxRateConfigs ==
    [active : {Some(TRUE), Some(FALSE)},
     created : {None},
     description : {None, Some("sales tax")},
     display_name : {Some("VAT")},
     inclusive : {Some(TRUE), Some(FALSE)},
     jurisdiction : {None, Some("DE")},
     livemode : {None},
     metadata : {None, Some({<<"env", "prod">>})},
     percentage : {Some(1900)}]

TaxRateLifecycleConfigs ==
    {c \in TaxRateConfigs : c.description = None /\ c.jurisdiction = None
                            /\ c.metadata = None}

\* No attribute of a tax rate is force-new.  description, jurisdiction and
\* metadata are planned together, and so are inclusive and percentage.
TaxRatePlans(attrs) ==
    {[attrs EXCEPT !.active = a, !.display_name = di,
                   !.inclusive = r[1], !.percentage = r[2],
                   !.description = x[1], !.jurisdiction = x[2], !.metadata = x[3]] :
        a \in {Some(TRUE), Some(FALSE)},
        di \in {Some("VAT"), Some("GST")},
        r \in {<<attrs.inclusive, attrs.percentage>>, <<Some(TRUE), Some(2100)>>},
        x \in {<<attrs.description, attrs.jurisdiction, attrs.metadata>>,
               <<Some("sales tax"), Some("DE"), Some({<<"env", "prod">>})>>}}
    \ {attrs}

----------------------------------------------------------------------------
(* Product                                                                 *)

ProductTypes ==
    [product_id |-> "string", name |-> "string", type |-> "string",
     active |-> "bool", attributes |-> "list", metadata |-> "map",
     statement_descriptor |-> "string", unit_label |-> "string"]

EmptyProductParams ==
    [ID |-> None, Name |-> None, Type |-> None, Active |-> None,
     Attributes |-> None, Metadata |-> None, StatementDescriptor |-> None,
     UnitLabel |-> None]

\* expandStringList(d, key): the list attribute as a list of strings.
expandStringList(attrs, key) == Get(attrs[key], <<>>)

expandAttributes(attrs) == expandStringList(attrs, "attributes")

\* client.Products.New: the ID asked for, or one the API assigns; a product
\* is active unless the request says otherwise.
ProductsNew(p) ==
    [ID |-> Get(p.ID, "prod_1"), Name |-> Get(p.Name, ""), Type |-> Get(p.Type, ""),
     Active |-> Get(p.Active, TRUE), Attributes |-> Get(p.Attributes, <<>>),
     Metadata |-> Get(p.Metadata, {}),
     StatementDescriptor |-> Get(p.StatementDescriptor, ""),
     UnitLabel |-> Get(p.UnitLabel, "")]

ProductsUpdate(o, p) ==
    [o EXCEPT !.Name = Get(p.Name, @), !.Type = Get(p.Type, @),
              !.Active = Get(p.Active, @), !.Attributes = Get(p.Attributes, @),
              !.Metadata = Get(p.Metadata, @),
              !.StatementDescriptor = Get(p.StatementDescriptor, @),
              !.UnitLabel = Get(p.UnitLabel, @)]

resourceStripeProductRead(dd, s, net, before) ==
    LET calls == Append(before, Call("get", "product", dd.id, EmptyProductParams, net /\ s # None))
        product == s[1]
    IN  IF ~net \/ s = None
        THEN Outcome(dd, s, RemoteError, calls)
        ELSE Outcome([dd EXCEPT !.attrs = SetAll(dd.attrs, ProductTypes,
                          << <<"product_id", product.ID, "string">>,
                             <<"name", product.Name, "string">>,
                             <<"type", product.Type, "string">>,
                             <<"active", product.Active, "bool">>,
                             <<"attributes", product.Attributes, "list">>,
                             <<"metadata", product.Metadata, "map">>,
                             <<"statement_descriptor", product.StatementDescriptor, "string">>,
                             <<"unit_label", product.UnitLabel, "string">> >>)],
                     s, OkResult, calls)

\* A Create that checks the product type only after the create call.
resourceStripeProductCreateLateCheck(dd, s, net, netRead) ==
    LET a == dd.attrs
        productType == Get(a.type, "")
        params == [EmptyProductParams EXCEPT
                      !.Name = Some(Get(a.name, "")),
                      !.Type = Some(productType),
                      !.ID = IF GetOk(a.product_id, "") THEN a.product_id ELSE @,
                      !.Active = IF GetOk(a.active, FALSE) THEN a.active ELSE @,
                      !.Attributes = Some(expandAttributes(a)),
                      !.Metadata = Some(expandMetadata(a))]
        product == ProductsNew(params)
        calls == <<Call("create", "product", "", params, net)>>
    IN  IF ~net
        THEN Outcome(dd, s, RemoteError, calls)
        ELSE IF productType \notin {"good", "service"}
        THEN Outcome(dd, Some(product), ValidationError("type"), calls)
        ELSE resourceStripeProductRead([dd EXCEPT !.id = product.ID],
                                       Some(product), netRead, calls)

resourceStripeProductCreate(dd, s, net, netRead) ==
    LET a == dd.attrs
        productType == Get(a.type, "")
        productStatementDescriptor == Get(a.statement_descriptor, "")
        productUnitLabel == Get(a.unit_label, "")
        p1 == [EmptyProductParams EXCEPT !.Name = Some(Get(a.name, "")),
                                         !.Type = Some(productType)]
        p2 == [p1 EXCEPT !.ID = IF GetOk(a.product_id, "") THEN a.product_id ELSE @]
        p3 == [p2 EXCEPT !.Active = IF GetOk(a.active, FALSE) THEN a.active ELSE @]
        p4 == [p3 EXCEPT !.Attributes = Some(expandAttributes(a)),
                         !.Metadata = Some(expandMetadata(a))]
        p5 == [p4 EXCEPT !.StatementDescriptor =
                IF productStatementDescriptor # ""
                THEN Some(productStatementDescriptor) ELSE @]
        params == [p5 EXCEPT !.UnitLabel =
                IF productUnitLabel # "" THEN Some(productUnitLabel) ELSE @]
        product == ProductsNew(params)
        calls == <<Call("create", "product", "", params, net)>>
    IN  IF productType \notin {"good", "service"}
        THEN Outcome(dd, s, ValidationError("type"), <<>>)
        ELSE IF ~net
        THEN Outcome(dd, s, RemoteError, calls)
        ELSE resourceStripeProductRead([dd EXCEPT !.id = product.ID],
                                       Some(product), netRead, calls)

resourceStripeProductUpdate(old, dd, s, net, netRead) ==
    LET a == dd.attrs
        p1 == [EmptyProductParams EXCEPT !.Name =
                IF HasChange(old, a, "name", "") THEN Some(Get(a.name, "")) ELSE @]
        p2 == [p1 EXCEPT !.Type =
                IF HasChange(old, a, "type", "") THEN Some(Get(a.type, "")) ELSE @]
        p3 == [p2 EXCEPT !.Active =
                IF HasChange(old, a, "active", FALSE)
                THEN Some(Get(a.active, FALSE)) ELSE @]
        p4 == [p3 EXCEPT !.Attributes =
                IF HasChange(old, a, "attributes", <<>>)
                THEN Some(expandAttributes(a)) ELSE @]
        p5 == [p4 EXCEPT !.Metadata =
                IF HasChange(old, a, "metadata", {})
                THEN Some(expandMetadata(a)) ELSE @]
        p6 == [p5 EXCEPT !.StatementDescriptor =
                IF HasChange(old, a, "statement_descriptor", "")
                THEN Some(Get(a.statement_descriptor, "")) ELSE @]
        params == [p6 EXCEPT !.UnitLabel =
                IF HasChange(old, a, "unit_label", "")
                THEN Some(Get(a.unit_label, "")) ELSE @]
        calls == <<Call("update", "product", dd.id, params, net /\ s # None)>>
    IN  IF ~net \/ s = None
        THEN Outcome(dd, s, RemoteError, calls)
        ELSE resourceStripeProductRead(dd, Some(ProductsUpdate(s[1], params)), netRead, calls)

resourceStripeProductDelete(dd, s, net) ==
    LET calls == <<Call("delete", "product", dd.id, EmptyProductParams, net /\ s # None)>>
    IN  IF ~net \/ s = None
        THEN Outcome(dd, s, RemoteError, calls)
        ELSE Outcome([dd EXCEPT !.id = ""], None, OkResult, calls)

\* active has the schema default true, so it is always set.
ProductConfigs ==
    [product_id : {None, Some("prod_gold")},
     name : {Some("Gold")},
     type : {Some("good"), Some("service"), Some("bundle")},
     active : {Some(TRUE), Some(FALSE)},
     attributes : {None, Some(<<"size">>)},
     metadata : {None, Some({<<"env", "prod">>})},
     statement_descriptor : {None, Some("GOLD")},
     unit_label : {None, Some("seat")}]

ProductLifecycleConfigs ==
    {c \in ProductConfigs : c.attributes = None /\ c.metadata = None
                            /\ c.statement_descriptor = None /\ c.unit_label = None
                            /\ c.type # Some("service")}

\* product_id is the only force-new attribute of a product.  attributes,
\* metadata, statement_descriptor and unit_label are planned together.
ProductPlans(attrs) ==
    {[attrs EXCEPT !.name = n, !.type = t, !.active = ac, !.attributes = x[1],
                   !.metadata = x[2], !.statement_descriptor = x[3],
                   !.unit_label = x[4]] :
        n \in {Some("Gold"), Some("Platinum")},
        t \in {attrs.type, Some("bundle")},
        ac \in {Some(TRUE), Some(FALSE)},
        x \in {<<attrs.attributes, attrs.metadata, attrs.statement_descriptor,
                 attrs.unit_label>>,
               <<Some(<<"size">>), Some({<<"env", "prod">>}), Some("GOLD"),
                 Some("seat")>>}}
    \ {attrs}

----------------------------------------------------------------------------
(* Webhook endpoint                                                        *)

WebhookEndpointTypes ==
    [url |-> "string", enabled_events |-> "list", connect |-> "bool",
     secret |-> "string"]

EmptyWebhookEndpointParams == [URL |-> None, EnabledEvents |-> None, Connect |-> None]

\* client.WebhookEndpoints.New: a connect endpoint belongs to an application.
WebhookEndpointsNew(p) ==
    [ID |-> "we_1", URL |-> Get(p.URL, ""),
     EnabledEvents |-> Get(p.EnabledEvents, <<>>),
     Application |-> IF Get(p.Connect, FALSE) THEN "ca_1" ELSE "",
     Secret |-> "whsec_1"]

WebhookEndpointsUpdate(w, p) ==
    [w EXCEPT !.URL = Get(p.URL, @), !.EnabledEvents = Get(p.EnabledEvents, @)]

resourceStripeWebhookEndpointCreate(dd, s, net) ==
    LET a == dd.attrs
        p1 == [EmptyWebhookEndpointParams EXCEPT
                  !.URL = Some(Get(a.url, "")),
                  !.EnabledEvents = Some(expandStringList(a, "enabled_events"))]
        params == [p1 EXCEPT !.Connect =
                IF GetOk(a.connect, FALSE) THEN a.connect ELSE @]
        webhookEndpoint == WebhookEndpointsNew(params)
        calls == <<Call("create", "webhook_endpoint", "", params, net)>>
    IN  IF ~net
        THEN Outcome(dd, s, RemoteError, calls)
        ELSE Outcome([id |-> webhookEndpoint.ID,
                      attrs |-> SetAll(a, WebhookEndpointTypes,
                          << <<"secret", webhookEndpoint.Secret, "string">> >>)],
                     Some(webhookEndpoint), OkResult, calls)

resourceStripeWebhookEndpointRead(dd, s, net, before) ==
    LET calls == Append(before, Call("get", "webhook_endpoint", dd.id,
                                     EmptyWebhookEndpointParams, net /\ s # None))
        webhookEndpoint == s[1]
    IN  IF ~net \/ s = None
        THEN Outcome(dd, s, RemoteError, calls)
        ELSE Outcome([dd EXCEPT !.attrs = SetAll(dd.attrs, WebhookEndpointTypes,
                          << <<"url", webhookEndpoint.URL, "string">>,
                             <<"enabled_events", webhookEndpoint.EnabledEvents, "list">>,
                             <<"connect", webhookEndpoint.Application # "", "bool">> >>)],
                     s, OkResult, calls)

resourceStripeWebhookEndpointUpdate(old, dd, s, net, netRead) ==
    LET a == dd.attrs
        p1 == [EmptyWebhookEndpointParams EXCEPT !.URL =
                IF HasChange(old, a, "url", "") THEN Some(Get(a.url, "")) ELSE @]
        p2 == [p1 EXCEPT !.EnabledEvents =
                IF HasChange(old, a, "enabled_events", <<>>)
                THEN Some(expandStringList(a, "enabled_events")) ELSE @]
        params == [p2 EXCEPT !.Connect =
                IF HasChange(old, a, "connect", FALSE)
                THEN Some(Get(a.connect, FALSE)) ELSE @]
        calls == <<Call("update", "webhook_endpoint", dd.id, params, net /\ s # None)>>
    IN  IF ~net \/ s = None
        THEN Outcome(dd, s, RemoteError, calls)
        ELSE resourceStripeWebhookEndpointRead(
                 dd, Some(WebhookEndpointsUpdate(s[1], params)), netRead, calls)

resourceStripeWebhookEndpointDelete(dd, s, net) ==
    LET calls == <<Call("delete", "webhook_endpoint", dd.id,
                        EmptyWebhookEndpointParams, net /\ s # None)>>
    IN  IF ~net \/ s = None
        THEN Outcome(dd, s, RemoteError, calls)
        ELSE Outcome([dd EXCEPT !.id = ""], None, OkResult, calls)

WebhookEndpointConfigs ==
    [url : {Some("https://a.example/hook"), Some("https://b.example/hook")},
     enabled_events : {Some(<<"charge.failed">>), Some(<<"charge.failed", "charge.succeeded">>)},
     connect : {None, Some(TRUE), Some(FALSE)},
     secret : {None}]

WebhookEndpointLifecycleConfigs ==
    {c \in WebhookEndpointConfigs : c.url = Some("https://a.example/hook")
                                    /\ c.enabled_events = Some(<<"charge.failed">>)}

\* connect is force-new.
WebhookEndpointPlans(attrs) ==
    {[attrs EXCEPT !.url = u, !.enabled_events = e] :
        u \in {Some("https://a.example/hook"), Some("https://b.example/hook")},
        e \in {Some(<<"charge.failed">>),
               Some(<<"charge.failed", "charge.succeeded">>)}}
    \ {attrs}

----------------------------------------------------------------------------
(* Tiers of a price and of a plan                                          *)

EmptyTierParams ==
    [UpTo |-> None, UpToInf |-> None, FlatAmount |-> None,
     FlatAmountDecimal |-> None, UnitAmount |-> None, UnitAmountDecimal |-> None]

\* The tier the API stores for a tier of the request (nil for none): up_to
\* is 0 for a tier without an upper bound.
StoredTier(tp) ==
    LET p == Get(tp, EmptyTierParams)
    IN  [UpTo |-> IF Get(p.UpToInf, FALSE) THEN 0 ELSE Get(p.UpTo, 0),
         FlatAmount |-> Get(p.FlatAmount, 0),
         FlatAmountDecimal |-> Get(p.FlatAmountDecimal, 0),
         UnitAmount |-> Get(p.UnitAmount, 0),
         UnitAmountDecimal |-> Get(p.UnitAmountDecimal, 0)]

StoredTiers(tiers) ==
    LET in == Get(tiers, <<>>) IN [i \in 1..Len(in) |-> StoredTier(in[i])]

\* d.Set of a list of maps: every key of every element is set.
ListState(out) ==
    [i \in 1..Len(out) |-> [k \in DOMAIN out[i] |-> Some(out[i][k])]]

\* A flatten that never reports a tier as unbounded.
flattenTiersNoSentinel(in) ==
    [i \in 1..Len(in) |->
        [up_to |-> in[i].UpTo,
         up_to_inf |-> FALSE,
         flat_amount |-> in[i].FlatAmount,
         flat_amount_decimal |-> in[i].FlatAmountDecimal,
         unit_amount |-> in[i].UnitAmount,
         unit_amount_decimal |-> in[i].UnitAmountDecimal]]

flattenPriceTiers(in) ==
    [i \in 1..Len(in) |->
        [up_to |-> in[i].UpTo,
         up_to_inf |-> in[i].UpTo = 0,
         flat_amount |-> in[i].FlatAmount,
         flat_amount_decimal |-> in[i].FlatAmountDecimal,
         unit_amount |-> in[i].UnitAmount,
         unit_amount_decimal |-> in[i].UnitAmountDecimal]]

expandPriceTier(t) ==
    LET upToOK == GetOk(t.up_to, 0)
        upToInfOK == GetOkExists(t.up_to_inf)
        p1 == [EmptyTierParams EXCEPT !.UpTo = IF upToOK THEN t.up_to ELSE @]
        p2 == [p1 EXCEPT !.UpToInf = IF upToInfOK THEN t.up_to_inf ELSE @]
        p3 == [p2 EXCEPT
                !.FlatAmount = IF GetOkExists(t.flat_amount) THEN t.flat_amount ELSE @,
                !.FlatAmountDecimal =
                    IF ~GetOkExists(t.flat_amount) /\ GetOkExists(t.flat_amount_decimal)
                    THEN t.flat_amount_decimal ELSE @]
        p4 == [p3 EXCEPT
                !.UnitAmount = IF GetOkExists(t.unit_amount) THEN t.unit_amount ELSE @,
                !.UnitAmountDecimal =
                    IF ~GetOkExists(t.unit_amount) /\ GetOkExists(t.unit_amount_decimal)
                    THEN t.unit_amount_decimal ELSE @]
    IN  IF upToOK /\ upToInfOK
        THEN [tier |-> None, err |-> TRUE]
        ELSE [tier |-> Some(p4), err |-> FALSE]

\* out is nil when the tier attribute is not set or empty; diags holds an
\* error when a tier has one.
expandPriceTiers(attrs) ==
    IF ~GetOk(attrs.tier, <<>>)
    THEN [out |-> None, err |-> FALSE]
    ELSE LET in == attrs.tier[1]
         IN  [out |-> Some([i \in 1..Len(in) |-> expandPriceTier(in[i]).tier]),
              err |-> \E i \in 1..Len(in) : expandPriceTier(in[i]).err]

\* A flatten that lists the tiers last to first.
flattenTiersReversed(in) ==
    [i \in 1..Len(in) |->
        [up_to |-> in[Len(in) + 1 - i].UpTo,
         up_to_inf |-> in[Len(in) + 1 - i].UpTo = 0,
         flat_amount |-> in[Len(in) + 1 - i].FlatAmount,
         flat_amount_decimal |-> in[Len(in) + 1 - i].FlatAmountDecimal,
         unit_amount |-> in[Len(in) + 1 - i].UnitAmount,
         unit_amount_decimal |-> in[Len(in) + 1 - i].UnitAmountDecimal]]

flattenPlanTiers(in) ==
    [i \in 1..Len(in) |->
        [up_to |-> in[i].UpTo,
         up_to_inf |-> in[i].UpTo = 0,
         flat_amount |-> in[i].FlatAmount,
         flat_amount_decimal |-> in[i].FlatAmountDecimal,
         unit_amount |-> in[i].UnitAmount,
         unit_amount_decimal |-> in[i].UnitAmountDecimal]]

\* An expansion that copies the decimal form of an amount also when the
\* integer form is set.
expandPlanTierBothForms(t) ==
    LET upToOK == GetOk(t.up_to, 0)
        upToInfOK == GetOkExists(t.up_to_inf)
        params == [EmptyTierParams EXCEPT
                      !.UpTo = IF upToOK THEN t.up_to ELSE @,
                      !.UpToInf = IF upToInfOK THEN t.up_to_inf ELSE @,
                      !.FlatAmount = IF GetOk(t.flat_amount, 0) THEN t.flat_amount ELSE @,
                      !.FlatAmountDecimal =
                          IF GetOk(t.flat_amount_decimal, 0)
                          THEN t.flat_amount_decimal ELSE @,
                      !.UnitAmount = IF GetOk(t.unit_amount, 0) THEN t.unit_amount ELSE @,
                      !.UnitAmountDecimal =
                          IF GetOk(t.unit_amount_decimal, 0)
                          THEN t.unit_amount_decimal ELSE @]
    IN  IF upToOK /\ upToInfOK
        THEN [tier |-> None, err |-> TRUE]
        ELSE [tier |-> Some(params), err |-> FALSE]

expandPlanTier(t) ==
    LET upToOK == GetOk(t.up_to, 0)
        upToInfOK == GetOkExists(t.up_to_inf)
        p1 == [EmptyTierParams EXCEPT !.UpTo = IF upToOK THEN t.up_to ELSE @]
        p2 == [p1 EXCEPT !.UpToInf = IF upToInfOK THEN t.up_to_inf ELSE @]
        p3 == [p2 EXCEPT
                !.FlatAmount = IF GetOk(t.flat_amount, 0) THEN t.flat_amount ELSE @,
                !.FlatAmountDecimal =
                    IF ~GetOk(t.flat_amount, 0) /\ GetOk(t.flat_amount_decimal, 0)
                    THEN t.flat_amount_decimal ELSE @]
        p4 == [p3 EXCEPT
                !.UnitAmount = IF GetOk(t.unit_amount, 0) THEN t.unit_amount ELSE @,
                !.UnitAmountDecimal =
                    IF ~GetOk(t.unit_amount, 0) /\ GetOk(t.unit_amount_decimal, 0)
                    THEN t.unit_amount_decimal ELSE @]
    IN  IF upToOK /\ upToInfOK
        THEN [tier |-> None, err |-> TRUE]
        ELSE [tier |-> Some(p4), err |-> FALSE]

expandPlanTiers(attrs) ==
    IF ~GetOk(attrs.tier, <<>>)
    THEN [out |-> None, err |-> FALSE]
    ELSE LET in == attrs.tier[1]
         IN  [out |-> Some([i \in 1..Len(in) |-> expandPlanTier(in[i]).tier]),
              err |-> \E i \in 1..Len(in) : expandPlanTier(in[i]).err]

\* The longest tier list of a configuration.
MaxTiers == 2

\* The upper bound of a configured tier: up_to and up_to_inf.
TierBounds ==
    {[up_to |-> u[1], up_to_inf |-> u[2]] :
        u \in {<<None, None>>, <<Some(0), None>>, <<Some(3), None>>,
               <<None, Some(TRUE)>>, <<None, Some(FALSE)>>,
               <<Some(0), Some(TRUE)>>, <<Some(3), Some(TRUE)>>,
               <<Some(3), Some(FALSE)>>}}

\* The amounts of a configured tier: flat_amount, flat_amount_decimal,
\* unit_amount, unit_amount_decimal.
TierAmounts ==
    {[flat_amount |-> x[1], flat_amount_decimal |-> x[2],
      unit_amount |-> x[3], unit_amount_decimal |-> x[4]] :
        x \in {<<None, None, None, None>>,
               <<Some(0), None, Some(0), None>>,
               <<Some(700), None, Some(5), None>>,
               <<None, Some(750), None, Some(550)>>,
               <<None, Some(0), Some(5), None>>,
               <<Some(700), Some(750), Some(5), Some(550)>>,
               <<Some(0), Some(750), Some(0), Some(550)>>}}

Tiers ==
    {[up_to |-> b.up_to, up_to_inf |-> b.up_to_inf,
      flat_amount |-> m.flat_amount, flat_amount_decimal |-> m.flat_amount_decimal,
      unit_amount |-> m.unit_amount, unit_amount_decimal |-> m.unit_amount_decimal] :
        b \in TierBounds, m \in TierAmounts}

TierLists == UNION {[1..n -> Tiers] : n \in 0..MaxTiers}

\* The tier attribute of the configurations whose other attributes vary.
FewTierLists ==
    {None,
     Some(<< [up_to |-> Some(3), up_to_inf |-> None,
              flat_amount |-> Some(0), flat_amount_decimal |-> None,
              unit_amount |-> Some(5), unit_amount_decimal |-> None],
             [up_to |-> None, up_to_inf |-> Some(TRUE),
              flat_amount |-> None, flat_amount_decimal |-> Some(750),
              unit_amount |-> None, unit_amount_decimal |-> None] >>),
     Some(<< [up_to |-> Some(3), up_to_inf |-> Some(TRUE),
              flat_amount |-> None, flat_amount_decimal |-> None,
              unit_amount |-> Some(5), unit_amount_decimal |-> None] >>)}

----------------------------------------------------------------------------
(* Plan                                                                    *)

PlanTypes ==
    [plan_id |-> "string", active |-> "bool", amount |-> "int",
     amount_decimal |-> "float", currency |-> "string", interval |-> "string",
     product |-> "string", aggregate_usage |-> "string",
     billing_scheme |-> "string", interval_count |-> "int", metadata |-> "map",
     nickname |-> "string", tier |-> "list", tiers_mode |-> "string",
     transform_usage |-> "list", trial_period_days |-> "int",
     usage_type |-> "string"]

EmptyPlanParams ==
    [ID |-> None, Interval |-> None, ProductID |-> None, Currency |-> None,
     Amount |-> None, AmountDecimal |-> None, Active |-> None,
     AggregateUsage |-> None, BillingScheme |-> None, IntervalCount |-> None,
     Metadata |-> None, Nickname |-> None, TiersMode |-> None, Tiers |-> None,
     TransformUsage |-> None, TrialPeriodDays |-> None, UsageType |-> None]

\* The schema's checks of a plan configuration, made before any handler
\* runs: amount conflicts with amount_decimal, round is "down" or "up".
PlanSchemaValid(a) ==
    /\ ~(a.amount # None /\ a.amount_decimal # None)
    /\ \A i \in 1..Len(Get(a.transform_usage, <<>>)) :
          Get(a.transform_usage[1][i].round, "") \in {"down", "up"}

flattenPlanTransformUsage(in) ==
    IF in = None THEN <<>>
    ELSE << [divide_by |-> in[1].DivideBy, round |-> in[1].Round] >>

expandPlanTransformUsage(in) ==
    IF Len(in) = 0 THEN None
    ELSE Some([DivideBy |-> Some(Get(in[1].divide_by, 0)),
               Round |-> Some(Get(in[1].round, ""))])

\* client.Plans.New: the plan the API stores, with the API's defaults for
\* what the request leaves out.
PlansNew(p) ==
    [ID |-> Get(p.ID, "plan_1"), Active |-> Get(p.Active, TRUE),
     AggregateUsage |-> Get(p.AggregateUsage, ""), Amount |-> Get(p.Amount, 0),
     AmountDecimal |-> Get(p.AmountDecimal, 0),
     BillingScheme |-> Get(p.BillingScheme, "per_unit"),
     Currency |-> Get(p.Currency, ""), Interval |-> Get(p.Interval, ""),
     IntervalCount |-> Get(p.IntervalCount, 1), Metadata |-> Get(p.Metadata, {}),
     Nickname |-> Get(p.Nickname, ""), Product |-> [ID |-> Get(p.ProductID, "")],
     Tiers |-> StoredTiers(p.Tiers), TiersMode |-> Get(p.TiersMode, ""),
     TransformUsage |->
        IF p.TransformUsage = None THEN None
        ELSE Some([DivideBy |-> Get(p.TransformUsage[1].DivideBy, 0),
                   Round |-> Get(p.TransformUsage[1].Round, "")]),
     TrialPeriodDays |-> Get(p.TrialPeriodDays, 0),
     UsageType |-> Get(p.UsageType, "licensed")]

PlansUpdate(o, p) ==
    [o EXCEPT !.Active = Get(p.Active, @), !.Metadata = Get(p.Metadata, @),
              !.Nickname = Get(p.Nickname, @),
              !.TrialPeriodDays = Get(p.TrialPeriodDays, @),
              !.Product = IF p.ProductID = None THEN @ ELSE [ID |-> p.ProductID[1]]]

resourceStripePlanCreate(dd, s, net) ==
    LET a == dd.attrs
        amount == Get(a.amount, 0)
        amountDecimal == Get(a.amount_decimal, 0)
        p0 == [EmptyPlanParams EXCEPT !.Interval = Some(Get(a.interval, "")),
                                      !.ProductID = Some(Get(a.product, "")),
                                      !.Currency = Some(Get(a.currency, ""))]
        p1 == IF amountDecimal > 0
              THEN [p0 EXCEPT !.AmountDecimal = Some(amountDecimal)]
              ELSE [p0 EXCEPT !.Amount = Some(amount)]
        p2 == [p1 EXCEPT !.ID = IF GetOk(a.plan_id, "") THEN a.plan_id ELSE @]
        p3 == [p2 EXCEPT !.Active = IF GetOk(a.active, FALSE) THEN a.active ELSE @]
        p4 == [p3 EXCEPT !.AggregateUsage =
                IF GetOk(a.aggregate_usage, "") THEN a.aggregate_usage ELSE @]
        tiered == GetOk(a.billing_scheme, "") /\ a.billing_scheme[1] = "tiered"
        p5 == [p4 EXCEPT
                !.BillingScheme =
                    IF GetOk(a.billing_scheme, "") THEN a.billing_scheme ELSE @,
                !.Amount = IF tiered THEN None ELSE @,
                !.AmountDecimal = IF tiered THEN None ELSE @]
        p6 == [p5 EXCEPT !.IntervalCount =
                IF GetOk(a.interval_count, 0) THEN a.interval_count ELSE @]
        p7 == [p6 EXCEPT !.Metadata = Some(expandMetadata(a))]
        p8 == [p7 EXCEPT !.Nickname = IF GetOk(a.nickname, "") THEN a.nickname ELSE @]
        p9 == [p8 EXCEPT !.TiersMode =
                IF GetOk(a.tiers_mode, "") THEN a.tiers_mode ELSE @]
        tiers == expandPlanTiers(a)
        p10 == [p9 EXCEPT !.Tiers = tiers.out]
        p11 == [p10 EXCEPT !.TransformUsage =
                IF GetOk(a.transform_usage, <<>>)
                THEN expandPlanTransformUsage(a.transform_usage[1]) ELSE @]
        p12 == [p11 EXCEPT !.TrialPeriodDays =
                IF GetOk(a.trial_period_days, 0) THEN a.trial_period_days ELSE @]
        params == [p12 EXCEPT !.UsageType =
                IF GetOk(a.usage_type, "") THEN a.usage_type ELSE @]
        plan == PlansNew(params)
        calls == <<Call("create", "plan", "", params, net)>>
    IN  IF tiers.err
        THEN Outcome(dd, s, ValidationError("up_to: conflicts with up_to_inf"), <<>>)
        ELSE IF ~net
        THEN Outcome(dd, s, RemoteError, calls)
        ELSE Outcome([dd EXCEPT !.id = plan.ID], Some(plan), OkResult, calls)

\* plan.Product is a pointer to a product object, which does not decode into
\* the string attribute "product".
resourceStripePlanRead(dd, s, net, before) ==
    LET calls == Append(before, Call("get", "plan", dd.id, EmptyPlanParams, net /\ s # None))
        plan == s[1]
    IN  IF ~net \/ s = None
        THEN Outcome(dd, s, RemoteError, calls)
        ELSE Outcome([dd EXCEPT !.attrs = SetAll(dd.attrs, PlanTypes,
                          << <<"plan_id", plan.ID, "string">>,
                             <<"active", plan.Active, "bool">>,
                             <<"aggregate_usage", plan.AggregateUsage, "string">>,
                             <<"amount", plan.Amount, "int">>,
                             <<"amount_decimal", plan.AmountDecimal, "float">>,
                             <<"billing_scheme", plan.BillingScheme, "string">>,
                             <<"currency", plan.Currency, "string">>,
                             <<"interval", plan.Interval, "string">>,
                             <<"interval_count", plan.IntervalCount, "int">>,
                             <<"metadata", plan.Metadata, "map">>,
                             <<"nickname", plan.Nickname, "string">>,
                             <<"product", plan.Product, "struct">>,
                             <<"tiers_mode", plan.TiersMode, "string">>,
                             <<"tier", ListState(flattenPlanTiers(plan.Tiers)), "list">>,
                             <<"transform_usage",
                               ListState(flattenPlanTransformUsage(plan.TransformUsage)),
                               "list">>,
                             <<"trial_period_days", plan.TrialPeriodDays, "int">>,
                             <<"usage_type", plan.UsageType, "string">> >>)],
                     s, OkResult, calls)

resourceStripePlanUpdate(old, dd, s, net, netRead) ==
    LET a == dd.attrs
        p1 == [EmptyPlanParams EXCEPT !.ID =
                IF HasChange(old, a, "plan_id", "")
                THEN Some(Get(a.plan_id, "")) ELSE @]
        p2 == [p1 EXCEPT !.Active =
                IF HasChange(old, a, "active", FALSE)
                THEN Some(Get(a.active, FALSE)) ELSE @]
        p3 == [p2 EXCEPT !.Metadata =
                IF HasChange(old, a, "metadata", {})
                THEN Some(expandMetadata(a)) ELSE @]
        p4 == [p3 EXCEPT !.Nickname =
                IF HasChange(old, a, "nickname", "")
                THEN Some(Get(a.nickname, "")) ELSE @]
        params == [p4 EXCEPT !.TrialPeriodDays =
                IF HasChange(old, a, "trial_period_days", 0)
                THEN Some(Get(a.trial_period_days, 0)) ELSE @]
        calls == <<Call("update", "plan", dd.id, params, net /\ s # None)>>
    IN  IF ~net \/ s = None
        THEN Outcome(dd, s, RemoteError, calls)
        ELSE resourceStripePlanRead(dd, Some(PlansUpdate(s[1], params)), netRead, calls)

\* A Delete that sends its delete request again when the first one fails.
resourceStripePlanDeleteRetry(dd, s, net) ==
    LET call == Call("delete", "plan", dd.id, EmptyPlanParams, net /\ s # None)
    IN  IF ~net \/ s = None
        THEN Outcome(dd, s, RemoteError, <<call, call>>)
        ELSE Outcome([dd EXCEPT !.id = ""], None, OkResult, <<call>>)

resourceStripePlanDelete(dd, s, net) ==
    LET calls == <<Call("delete", "plan", dd.id, EmptyPlanParams, net /\ s # None)>>
    IN  IF ~net \/ s = None
        THEN Outcome(dd, s, RemoteError, calls)
        ELSE Outcome([dd EXCEPT !.id = ""], None, OkResult, calls)

\* Optional attributes of a plan that Create only passes on: all left out
\* (with their schema defaults), or all set.
PlanExtras ==
    {[aggregate_usage |-> None, interval_count |-> Some(1), tiers_mode |-> None,
      trial_period_days |-> None, usage_type |-> Some("licensed")],
     [aggregate_usage |-> Some("sum"), interval_count |-> Some(3),
      tiers_mode |-> Some("graduated"), trial_period_days |-> Some(7),
      usage_type |-> Some("metered")]}

PlanConfig(pid, ac, am, ad, bs, md, nn, tu, x, t) ==
    [plan_id |-> pid, active |-> ac, amount |-> am, amount_decimal |-> ad,
     currency |-> Some("usd"), interval |-> Some("month"),
     product |-> Some("prod_gold"), aggregate_usage |-> x.aggregate_usage,
     billing_scheme |-> bs, interval_count |-> x.interval_count,
     metadata |-> md, nickname |-> nn, tier |-> t, tiers_mode |-> x.tiers_mode,
     transform_usage |-> tu, trial_period_days |-> x.trial_period_days,
     usage_type |-> x.usage_type]

TransformUsages ==
    {None, Some(<< [divide_by |-> Some(10), round |-> Some("up")] >>),
     Some(<< [divide_by |-> Some(10), round |-> Some("nearest")] >>)}

\* active, billing_scheme, interval_count and usage_type have schema
\* defaults, so they are always set.
PlanFieldConfigs ==
    {PlanConfig(pid, ac, am, ad, bs, md, nn, tu, x, t) :
        pid \in {None, Some("plan_gold")},
        ac \in {Some(TRUE), Some(FALSE)},
        am \in {None, Some(0), Some(500)},
        ad \in {None, Some(250)},
        bs \in {Some("per_unit"), Some("tiered")},
        md \in {None, Some({<<"env", "prod">>})},
        nn \in {None, Some("Gold")},
        tu \in TransformUsages,
        x \in PlanExtras,
        t \in FewTierLists}

PlanTierConfigs ==
    {PlanConfig(None, Some(TRUE), None, None, Some("tiered"), None, None, None, x,
                Some(t)) :
        x \in {e \in PlanExtras : e.tiers_mode # None}, t \in TierLists}

PlanConfigs == PlanFieldConfigs \cup PlanTierConfigs

PlanLifecycleConfigs ==
    {c \in PlanFieldConfigs :
        /\ c.plan_id = None /\ c.metadata = None /\ c.nickname = None
        /\ c.amount_decimal = None /\ c.amount # Some(0)
        /\ PlanSchemaValid(c)
        /\ c.aggregate_usage = None
        /\ (c.billing_scheme = Some("tiered")) = (c.tier # None)}

\* active, metadata, nickname, product and trial_period_days are not
\* force-new.  metadata, nickname and trial_period_days are planned together.
PlanPlans(attrs) ==
    {[attrs EXCEPT !.active = ac, !.product = pr, !.metadata = x[1],
                   !.nickname = x[2], !.trial_period_days = x[3]] :
        ac \in {Some(TRUE), Some(FALSE)},
        pr \in {Some("prod_gold"), Some("prod_silver")},
        x \in {<<attrs.metadata, attrs.nickname, attrs.trial_period_days>>,
               <<Some({<<"env", "prod">>}), Some("Gold"), Some(14)>>}}
    \ {attrs}

----------------------------------------------------------------------------
(* Price                                                                   *)

PriceTypes ==
    [price_id |-> "string", active |-> "bool", currency |-> "string",
     metadata |-> "map", nickname |-> "string", product |-> "string",
     recurring |-> "map", unit_amount |-> "int", unit_amount_decimal |-> "float",
     billing_scheme |-> "string", created |-> "int", livemode |-> "bool",
     tier |-> "list", tiers_mode |-> "string", tax_behavior |-> "string"]

EmptyPriceParams ==
    [Currency |-> None, Active |-> None, Metadata |-> None, Nickname |-> None,
     TiersMode |-> None, Tiers |-> None, Product |-> None, Recurring |-> None,
     UnitAmount |-> None, UnitAmountDecimal |-> None, BillingScheme |-> None,
     TaxBehavior |-> None]

EmptyPriceRecurringParams ==
    [AggregateUsage |-> None, Interval |-> None, IntervalCount |-> None,
     UsageType |-> None]

\* The schema's check of a price configuration, made before any handler
\* runs: tax_behavior is one of three values.
PriceSchemaValid(a) ==
    Get(a.tax_behavior, "") \in {"unspecified", "inclusive", "exclusive"}

\* A rule under which no change of tax_behavior replaces the price.
TaxBehaviorNeverForceNew(oldValue) == FALSE

\* customdiff.ForceNewIfChange("tax_behavior"): a change of tax_behavior
\* replaces the price unless the old value is "unspecified".
TaxBehaviorForceNew(oldValue) == oldValue # "unspecified"

\* expandStringMap: the map attribute as a string map.
expandStringMap(m) == m

\* strconv.ParseInt(s, 10, 64) on the strings the model uses.
ParseIntValue == [s \in {"3", "52"} |-> IF s = "3" THEN 3 ELSE 52]

ParseIntOk(s) == s \in DOMAIN ParseIntValue

MapField(params, m, key, field) ==
    IF key \in DOMAIN m THEN [params EXCEPT ![field] = Some(m[key])] ELSE params

expandPriceRecurring(recurring) ==
    LET parsed == expandStringMap(recurring)
        p1 == MapField(EmptyPriceRecurringParams, parsed, "aggregate_usage", "AggregateUsage")
        p2 == MapField(p1, parsed, "interval", "Interval")
        p3 == [p2 EXCEPT !.IntervalCount =
                IF "interval_count" \in DOMAIN parsed /\ ParseIntOk(parsed["interval_count"])
                THEN Some(ParseIntValue[parsed["interval_count"]]) ELSE @]
        p4 == MapField(p3, parsed, "usage_type", "UsageType")
    IN  IF "interval_count" \in DOMAIN parsed /\ ~ParseIntOk(parsed["interval_count"])
        THEN [params |-> None, err |-> TRUE]
        ELSE [params |-> Some(p4), err |-> FALSE]

\* client.Prices.New: the price the API stores, with the API's defaults for
\* what the request leaves out.
PricesNew(p) ==
    [ID |-> "price_1", Active |-> Get(p.Active, TRUE), Created |-> ServerCreated,
     Currency |-> Get(p.Currency, ""), Livemode |-> FALSE,
     Metadata |-> Get(p.Metadata, {}), Nickname |-> Get(p.Nickname, ""),
     Product |-> IF p.Product = None THEN None ELSE Some([ID |-> p.Product[1]]),
     Recurring |-> p.Recurring,
     UnitAmount |-> Get(p.UnitAmount, 0),
     UnitAmountDecimal |-> Get(p.UnitAmountDecimal, 0),
     TiersMode |-> Get(p.TiersMode, ""), Tiers |-> StoredTiers(p.Tiers),
     BillingScheme |-> Get(p.BillingScheme, "per_unit"),
     TaxBehavior |-> Get(p.TaxBehavior, "unspecified")]

PricesUpdate(o, p) ==
    [o EXCEPT !.Active = Get(p.Active, @), !.Metadata = Get(p.Metadata, @),
              !.Nickname = Get(p.Nickname, @),
              !.TaxBehavior = Get(p.TaxBehavior, @)]

resourceStripePriceRead(dd, s, net, before) ==
    LET calls == Append(before, Call("get", "price", dd.id, EmptyPriceParams, net /\ s # None))
        price == s[1]
        a1 == SetAll(dd.attrs, PriceTypes,
                  << <<"price_id", price.ID, "string">>,
                     <<"active", price.Active, "bool">>,
                     <<"created", price.Created, "int">>,
                     <<"currency", price.Currency, "string">>,
                     <<"livemode", price.Livemode, "bool">>,
                     <<"metadata", price.Metadata, "map">>,
                     <<"nickname", price.Nickname, "string">> >>)
        a2 == IF price.Product # None
              THEN dSet(a1, PriceTypes, "product", price.Product[1].ID, "string")
              ELSE a1
    IN  IF ~net \/ s = None
        THEN Outcome(dd, s, RemoteError, calls)
        ELSE Outcome([dd EXCEPT !.attrs = SetAll(a2, PriceTypes,
                          << <<"recurring", price.Active, "bool">>,
                             <<"unit_amount", price.UnitAmount, "int">>,
                             <<"unit_amount_decimal", price.UnitAmountDecimal, "float">>,
                             <<"tiers_mode", price.TiersMode, "string">>,
                             <<"tier", ListState(flattenPriceTiers(price.Tiers)), "list">>,
                             <<"billing_scheme", price.BillingScheme, "string">>,
                             <<"tax_behavior", price.TaxBehavior, "string">> >>)],
                     s, OkResult, calls)

resourceStripePriceCreate(dd, s, net, netRead) ==
    LET a == dd.attrs
        nickname == Get(a.nickname, "")
        p0 == [EmptyPriceParams EXCEPT !.Currency = Some(Get(a.currency, ""))]
        p1 == [p0 EXCEPT !.Active = IF GetOk(a.active, FALSE) THEN a.active ELSE @]
        p2 == [p1 EXCEPT !.Metadata = Some(expandMetadata(a))]
        p3 == [p2 EXCEPT !.Nickname =
                IF GetOk(a.nickname, "") THEN Some(nickname) ELSE @]
        p4 == [p3 EXCEPT !.TiersMode =
                IF GetOk(a.tiers_mode, "") THEN a.tiers_mode ELSE @]
        priceTiers == expandPriceTiers(a)
        p5 == [p4 EXCEPT !.Tiers = priceTiers.out]
        p6 == [p5 EXCEPT !.Product = IF GetOk(a.product, "") THEN a.product ELSE @]
        recurring == IF GetOk(a.recurring, <<>>)
                     THEN expandPriceRecurring(a.recurring[1])
                     ELSE [params |-> None, err |-> FALSE]
        p7 == [p6 EXCEPT !.Recurring = recurring.params]
        p8 == [p7 EXCEPT !.UnitAmount =
                IF GetOkExists(a.unit_amount) THEN a.unit_amount ELSE @]
        p9 == [p8 EXCEPT !.UnitAmountDecimal =
                IF GetOkExists(a.unit_amount_decimal) THEN a.unit_amount_decimal ELSE @]
        p10 == [p9 EXCEPT !.BillingScheme =
                IF GetOk(a.billing_scheme, "") THEN a.billing_scheme ELSE @]
        params == [p10 EXCEPT !.TaxBehavior =
                IF GetOk(a.tax_behavior, "") THEN a.tax_behavior ELSE @]
        price == PricesNew(params)
        calls == <<Call("create", "price", "", params, net)>>
    IN  IF priceTiers.err
        THEN Outcome(dd, s, ValidationError("up_to: conflicts with up_to_inf"), <<>>)
        ELSE IF recurring.err
        THEN Outcome(dd, s, ValidationError("interval_count"), <<>>)
        ELSE IF ~net
        THEN Outcome(dd, s, RemoteError, calls)
        ELSE resourceStripePriceRead([dd EXCEPT !.id = price.ID], Some(price),
                                     netRead, calls)

resourceStripePriceUpdate(old, dd, s, net, netRead) ==
    LET a == dd.attrs
        p1 == [EmptyPriceParams EXCEPT !.Active =
                IF HasChange(old, a, "active", FALSE)
                THEN Some(Get(a.active, FALSE)) ELSE @]
        p2 == [p1 EXCEPT !.Metadata =
                IF HasChange(old, a, "metadata", {})
                THEN Some(expandMetadata(a)) ELSE @]
        p3 == [p2 EXCEPT !.Nickname =
                IF HasChange(old, a, "nickname", "")
                THEN Some(Get(a.nickname, "")) ELSE @]
        params == [p3 EXCEPT !.TaxBehavior =
                IF HasChange(old, a, "tax_behavior", "")
                THEN Some(Get(a.tax_behavior, "")) ELSE @]
        calls == <<Call("update", "price", dd.id, params, net /\ s # None)>>
    IN  IF ~net \/ s = None
        THEN Outcome(dd, s, RemoteError, calls)
        ELSE resourceStripePriceRead(dd, Some(PricesUpdate(s[1], params)), netRead, calls)

resourceStripePriceDelete(dd, s, net) ==
    LET params == [EmptyPriceParams EXCEPT !.Active = Some(FALSE)]
        calls == <<Call("update", "price", dd.id, params, net /\ s # None)>>
    IN  IF ~net \/ s = None
        THEN Outcome(dd, s, RemoteError, calls)
        ELSE Outcome([dd EXCEPT !.id = ""], Some(PricesUpdate(s[1], params)),
                     OkResult, calls)

\* Optional attributes of a price that Create only passes on: all left out,
\* or all set.
PriceExtras ==
    {[billing_scheme |-> None, metadata |-> None, tiers_mode |-> None],
     [billing_scheme |-> Some("tiered"), metadata |-> Some({<<"env", "prod">>}),
      tiers_mode |-> Some("graduated")]}

PriceConfig(ac, nn, pr, rc, ua, ud, tb, x, t) ==
    [price_id |-> None, active |-> ac, currency |-> Some("usd"),
     metadata |-> x.metadata, nickname |-> nn, product |-> pr, recurring |-> rc,
     unit_amount |-> ua, unit_amount_decimal |-> ud,
     billing_scheme |-> x.billing_scheme, created |-> None, livemode |-> None,
     tier |-> t, tiers_mode |-> x.tiers_mode, tax_behavior |-> tb]

Recurrings ==
    {None, Some([interval |-> "month"]),
     Some([interval |-> "week", interval_count |-> "52"]),
     Some([interval |-> "week", interval_count |-> "many"])}

\* active and tax_behavior have schema defaults, so they are always set.
PriceFieldConfigs ==
    {PriceConfig(ac, nn, pr, rc, ua, ud, tb, x, t) :
        ac \in {Some(TRUE), Some(FALSE)},
        nn \in {None, Some("Gold")},
        pr \in {None, Some("prod_gold")},
        rc \in Recurrings,
        ua \in {None, Some(0), Some(500)},
        ud \in {None, Some(0), Some(250)},
        tb \in {Some("unspecified"), Some("inclusive"), Some("reverse")},
        x \in PriceExtras,
        t \in FewTierLists}

PriceTierConfigs ==
    {PriceConfig(Some(TRUE), None, Some("prod_gold"), None, None, None,
                 Some("unspecified"), x, Some(t)) :
        x \in {e \in PriceExtras : e.tiers_mode # None}, t \in TierLists}

PriceConfigs == PriceFieldConfigs \cup PriceTierConfigs

PriceLifecycleConfigs ==
    {c \in PriceFieldConfigs :
        /\ c.nickname = None /\ c.product # None
        /\ c.recurring \in {None, Some([interval |-> "month"])}
        /\ c.unit_amount_decimal = None /\ c.unit_amount # Some(0)
        /\ PriceSchemaValid(c)
        /\ (c.unit_amount = None) = (c.tier # None)
        /\ (c.tier = None) = (c.tiers_mode = None)}

\* active, metadata, nickname and recurring are not force-new; tax_behavior
\* is force-new unless its old value is "unspecified".  metadata and nickname
\* are planned together.
PricePlans(attrs) ==
    {[attrs EXCEPT !.active = ac, !.recurring = rc, !.tax_behavior = tb,
                   !.metadata = x[1], !.nickname = x[2]] :
        ac \in {Some(TRUE), Some(FALSE)},
        rc \in {attrs.recurring, Some([interval |-> "year"])},
        tb \in {attrs.tax_behavior} \cup
               (IF TaxBehaviorForceNew(Get(attrs.tax_behavior, "unspecified"))
                THEN {} ELSE {Some("inclusive"), Some("exclusive")}),
        x \in {<<attrs.metadata, attrs.nickname>>,
               <<Some({<<"env", "prod">>}), Some("Gold")>>}}
    \ {attrs}

----------------------------------------------------------------------------
(* The operations Terraform invokes                                        *)

Record(op, kind, old, entry, out) ==
    [op |-> op, kind |-> kind, old |-> old, entry |-> entry, post |-> out.d,
     result |-> out.result, calls |-> out.calls]

Apply(op, kind, old, entry, out) ==
    /\ d' = Persist(kind, out.d)
    /\ srv' = out.srv
    /\ last' = Record(op, kind, old, entry, out)
    /\ todo' = None

Init ==
    /\ d = NoResource
    /\ srv = None
    /\ last = [op |-> "none", kind |-> "none", old |-> <<>>,
               entry |-> [id |-> "", attrs |-> <<>>],
               post |-> [id |-> "", attrs |-> <<>>],
               result |-> OkResult, calls |-> <<>>]
    /\ todo = None

\* Terraform runs one lifecycle per resource: create, then reads and updates,
\* then delete.  A create after a failed create or after a delete starts from
\* the same empty resource data as the first one.
Fresh == d.kind = "none" /\ last.op = "none"

Entry(attrs) == [id |-> d.id, attrs |-> attrs]

\* The schema rejects a configuration before the handler runs.
SchemaError(dd, s) == Outcome(dd, s, ValidationError("schema"), <<>>)

CouponCreateFrom(configs) ==
    /\ Fresh
    /\ \E cfg \in configs, net \in BOOLEAN :
         Apply("create", "coupon", <<>>, Entry(cfg),
               resourceStripeCouponCreate(Entry(cfg), srv, net))

CouponRead ==
    /\ d.kind = "coupon"
    /\ \E net \in BOOLEAN :
         Apply("read", "coupon", d.attrs, Entry(d.attrs),
               resourceStripeCouponRead(Entry(d.attrs), srv, net, <<>>))

CouponUpdate ==
    /\ d.kind = "coupon"
    /\ \E plan \in CouponPlans(d.attrs), net \in BOOLEAN, netRead \in BOOLEAN :
         Apply("update", "coupon", d.attrs, Entry(plan),
               resourceStripeCouponUpdate(d.attrs, Entry(plan), srv, net, netRead))

CouponDelete ==
    /\ d.kind = "coupon"
    /\ \E net \in BOOLEAN :
         Apply("delete", "coupon", d.attrs, Entry(d.attrs),
               resourceStripeCouponDelete(Entry(d.attrs), srv, net))

TaxRateCreateFrom(configs) ==
    /\ Fresh
    /\ \E cfg \in configs, net \in BOOLEAN :
         Apply("create", "tax_rate", <<>>, Entry(cfg),
               resourceStripeTaxRateCreate(Entry(cfg), srv, net))

TaxRateRead ==
    /\ d.kind = "tax_rate"
    /\ \E net \in BOOLEAN :
         Apply("read", "tax_rate", d.attrs, Entry(d.attrs),
               resourceStripeTaxRateRead(Entry(d.attrs), srv, net, <<>>))

TaxRateUpdate ==
    /\ d.kind = "tax_rate"
    /\ \E plan \in TaxRatePlans(d.attrs), net \in BOOLEAN, netRead \in BOOLEAN :
         Apply("update", "tax_rate", d.attrs, Entry(plan),
               resourceStripeTaxRateUpdate(d.attrs, Entry(plan), srv, net, netRead))

TaxRateDelete ==
    /\ d.kind = "tax_rate"
    /\ Apply("delete", "tax_rate", d.attrs, Entry(d.attrs),
             resourceStripeTaxRateDelete(Entry(d.attrs), srv))

ProductCreateFrom(configs) ==
    /\ Fresh
    /\ \E cfg \in configs, net \in BOOLEAN, netRead \in BOOLEAN :
         Apply("create", "product", <<>>, Entry(cfg),
               resourceStripeProductCreate(Entry(cfg), srv, net, netRead))

ProductRead ==
    /\ d.kind = "product"
    /\ \E net \in BOOLEAN :
         Apply("read", "product", d.attrs, Entry(d.attrs),
               resourceStripeProductRead(Entry(d.attrs), srv, net, <<>>))

ProductUpdate ==
    /\ d.kind = "product"
    /\ \E plan \in ProductPlans(d.attrs), net \in BOOLEAN, netRead \in BOOLEAN :
         Apply("update", "product", d.attrs, Entry(plan),
               resourceStripeProductUpdate(d.attrs, Entry(plan), srv, net, netRead))

ProductDelete ==
    /\ d.kind = "product"
    /\ \E net \in BOOLEAN :
         Apply("delete", "product", d.attrs, Entry(d.attrs),
               resourceStripeProductDelete(Entry(d.attrs), srv, net))

WebhookEndpointCreateFrom(configs) ==
    /\ Fresh
    /\ \E cfg \in configs, net \in BOOLEAN :
         Apply("create", "webhook_endpoint", <<>>, Entry(cfg),
               resourceStripeWebhookEndpointCreate(Entry(cfg), srv, net))

WebhookEndpointRead ==
    /\ d.kind = "webhook_endpoint"
    /\ \E net \in BOOLEAN :
         Apply("read", "webhook_endpoint", d.attrs, Entry(d.attrs),
               resourceStripeWebhookEndpointRead(Entry(d.attrs), srv, net, <<>>))

WebhookEndpointUpdate ==
    /\ d.kind = "webhook_endpoint"
    /\ \E plan \in WebhookEndpointPlans(d.attrs), net \in BOOLEAN, netRead \in BOOLEAN :
         Apply("update", "webhook_endpoint", d.attrs, Entry(plan),
               resourceStripeWebhookEndpointUpdate(d.attrs, Entry(plan), srv, net, netRead))

WebhookEndpointDelete ==
    /\ d.kind = "webhook_endpoint"
    /\ \E net \in BOOLEAN :
         Apply("delete", "webhook_endpoint", d.attrs, Entry(d.attrs),
               resourceStripeWebhookEndpointDelete(Entry(d.attrs), srv, net))

PlanCreateFrom(configs) ==
    /\ Fresh
    /\ \E cfg \in configs, net \in BOOLEAN :
         Apply("create", "plan", <<>>, Entry(cfg),
               IF PlanSchemaValid(cfg)
               THEN resourceStripePlanCreate(Entry(cfg), srv, net)
               ELSE SchemaError(Entry(cfg), srv))

PlanRead ==
    /\ d.kind = "plan"
    /\ \E net \in BOOLEAN :
         Apply("read", "plan", d.attrs, Entry(d.attrs),
               resourceStripePlanRead(Entry(d.attrs), srv, net, <<>>))

PlanUpdate ==
    /\ d.kind = "plan"
    /\ \E plan \in PlanPlans(d.attrs), net \in BOOLEAN, netRead \in BOOLEAN :
         Apply("update", "plan", d.attrs, Entry(plan),
               resourceStripePlanUpdate(d.attrs, Entry(plan), srv, net, netRead))

PlanDelete ==
    /\ d.kind = "plan"
    /\ \E net \in BOOLEAN :
         Apply("delete", "plan", d.attrs, Entry(d.attrs),
               resourceStripePlanDelete(Entry(d.attrs), srv, net))

PriceCreateFrom(configs) ==
    /\ Fresh
    /\ \E cfg \in configs, net \in BOOLEAN, netRead \in BOOLEAN :
         Apply("create", "price", <<>>, Entry(cfg),
               IF PriceSchemaValid(cfg)
               THEN resourceStripePriceCreate(Entry(cfg), srv, net, netRead)
               ELSE SchemaError(Entry(cfg), srv))

PriceRead ==
    /\ d.kind = "price"
    /\ \E net \in BOOLEAN :
         Apply("read", "price", d.attrs, Entry(d.attrs),
               resourceStripePriceRead(Entry(d.attrs), srv, net, <<>>))

PriceUpdate ==
    /\ d.kind = "price"
    /\ \E plan \in PricePlans(d.attrs), net \in BOOLEAN, netRead \in BOOLEAN :
         Apply("update", "price", d.attrs, Entry(plan),
               resourceStripePriceUpdate(d.attrs, Entry(plan), srv, net, netRead))

PriceDelete ==
    /\ d.kind = "price"
    /\ \E net \in BOOLEAN :
         Apply("delete", "price", d.attrs, Entry(d.attrs),
               resourceStripePriceDelete(Entry(d.attrs), srv, net))

CouponCreate == CouponCreateFrom(CouponLifecycleConfigs)

TaxRateCreate == TaxRateCreateFrom(TaxRateLifecycleConfigs)

ProductCreate == ProductCreateFrom(ProductLifecycleConfigs)

WebhookEndpointCreate == WebhookEndpointCreateFrom(WebhookEndpointLifecycleConfigs)

PlanCreate == PlanCreateFrom(PlanLifecycleConfigs)

PriceCreate == PriceCreateFrom(PriceLifecycleConfigs)

\* One resource through its lifecycle.
Next ==
    \/ CouponCreate \/ CouponRead \/ CouponUpdate \/ CouponDelete
    \/ TaxRateCreate \/ TaxRateRead \/ TaxRateUpdate \/ TaxRateDelete
    \/ ProductCreate \/ ProductRead \/ ProductUpdate \/ ProductDelete
    \/ WebhookEndpointCreate \/ WebhookEndpointRead \/ WebhookEndpointUpdate
    \/ WebhookEndpointDelete
    \/ PlanCreate \/ PlanRead \/ PlanUpdate \/ PlanDelete
    \/ PriceCreate \/ PriceRead \/ PriceUpdate \/ PriceDelete

Spec == Init /\ [][Next]_vars

CouponCreateAny == CouponCreateFrom(CouponConfigs)

TaxRateCreateAny == TaxRateCreateFrom(TaxRateConfigs)

ProductCreateAny == ProductCreateFrom(ProductConfigs)

WebhookEndpointCreateAny == WebhookEndpointCreateFrom(WebhookEndpointConfigs)

PlanCreateAny == PlanCreateFrom(PlanConfigs)

PriceCreateAny == PriceCreateFrom(PriceConfigs)

\* A resource created from any configuration, and read back.
NextCreate ==
    \/ CouponCreateAny \/ TaxRateCreateAny \/ ProductCreateAny
    \/ WebhookEndpointCreateAny \/ PlanCreateAny \/ PriceCreateAny
    \/ CouponRead \/ TaxRateRead \/ ProductRead \/ WebhookEndpointRead
    \/ PlanRead \/ PriceRead

SpecCreate == Init /\ [][NextCreate]_vars

----------------------------------------------------------------------------
(* Changed configurations: update in place, or replacement                 *)

ZeroValue(type) ==
    CASE type = "string" -> ""
      [] type \in {"int", "float"} -> 0
      [] type = "bool" -> FALSE
      [] type = "map" -> {}
      [] type = "list" -> <<>>

\* The schema of a kind of resource: the type of every attribute, and the
\* attributes marked ForceNew.
Schema(kind) ==
    CASE kind = "coupon" ->
           [types |-> CouponTypes,
            forceNew |-> {"amount_off", "currency", "duration",
                          "duration_in_months", "max_redemptions",
                          "percent_off", "redeem_by"}]
      [] kind = "tax_rate" -> [types |-> TaxRateTypes, forceNew |-> {}]
      [] kind = "product" -> [types |-> ProductTypes, forceNew |-> {"product_id"}]
      [] kind = "webhook_endpoint" ->
           [types |-> WebhookEndpointTypes, forceNew |-> {"connect"}]
      [] kind = "plan" ->
           [types |-> PlanTypes,
            forceNew |-> {"plan_id", "amount", "amount_decimal", "currency",
                          "interval", "aggregate_usage", "billing_scheme",
                          "interval_count", "tier", "tiers_mode",
                          "transform_usage", "usage_type"}]
      [] kind = "price" ->
           [types |-> PriceTypes,
            forceNew |-> {"price_id", "currency", "product", "unit_amount",
                          "unit_amount_decimal", "billing_scheme", "tier",
                          "tiers_mode"}]

\* The difference between the last-known attributes old and the planned
\* attributes new requires a new resource: a ForceNew attribute differs, or
\* the tax_behavior of a price differs and its CustomizeDiff says so.
RequiresNew(kind, old, new) ==
    \/ \E k \in Schema(kind).forceNew :
          Get(old[k], ZeroValue(Schema(kind).types[k]))
              # Get(new[k], ZeroValue(Schema(kind).types[k]))
    \/ /\ kind = "price"
       /\ Get(old.tax_behavior, "") # Get(new.tax_behavior, "")
       /\ TaxBehaviorForceNew(Get(old.tax_behavior, ""))

\* Changed configurations of a resource, in ForceNew attributes and in
\* others.
Changes(kind, attrs) ==
    (CASE kind = "coupon" ->
            {[attrs EXCEPT !.duration = du, !.name = n] :
                du \in {attrs.duration, Some("forever")},
                n \in {attrs.name, Some("Summer")}}
       [] kind = "product" ->
            {[attrs EXCEPT !.product_id = id, !.name = n] :
                id \in {attrs.product_id, Some("prod_new")},
                n \in {attrs.name, Some("Platinum")}}
       [] kind = "webhook_endpoint" ->
            {[attrs EXCEPT !.connect = c, !.url = u] :
                c \in {attrs.connect, Some(TRUE), Some(FALSE)},
                u \in {attrs.url, Some("https://b.example/hook")}}
       [] kind = "plan" ->
            {[attrs EXCEPT !.plan_id = id, !.nickname = n] :
                id \in {attrs.plan_id, Some("plan_new")},
                n \in {attrs.nickname, Some("Gold")}}
       [] kind = "price" ->
            {[attrs EXCEPT !.unit_amount = ua, !.tax_behavior = tb, !.nickname = n] :
                ua \in {attrs.unit_amount, Some(900)},
                tb \in {attrs.tax_behavior, Some("inclusive"), Some("exclusive")},
                n \in {attrs.nickname, Some("Gold")}})
    \ {attrs}

\* Terraform destroys a resource it replaces with its Delete handler, and
\* keeps the planned configuration to create when Delete succeeded.
Replace(kind, plan, out) ==
    /\ d' = Persist(kind, out.d)
    /\ srv' = out.srv
    /\ last' = Record("delete", kind, d.attrs, Entry(d.attrs), out)
    /\ todo' = IF out.result = OkResult THEN Some(plan) ELSE None

Recreating(kind) == todo # None /\ d.kind = "none" /\ last.kind = kind

\* Terraform applies a changed configuration of a coupon: Update in
\* place, or Delete and then Create when the change requires a new resource.
CouponChange ==
    /\ d.kind = "coupon"
    /\ \E plan \in Changes("coupon", d.attrs), net \in BOOLEAN, netRead \in BOOLEAN :
         IF RequiresNew("coupon", d.attrs, plan)
         THEN Replace("coupon", plan,
                      resourceStripeCouponDelete(Entry(d.attrs), srv, net))
         ELSE Apply("update", "coupon", d.attrs, Entry(plan),
                    resourceStripeCouponUpdate(d.attrs, Entry(plan), srv, net, netRead))

CouponRecreate ==
    /\ Recreating("coupon")
    /\ \E net \in BOOLEAN :
         Apply("create", "coupon", last.old, Entry(todo[1]),
               resourceStripeCouponCreate(Entry(todo[1]), srv, net))

\* Terraform applies a changed configuration of a product: Update in
\* place, or Delete and then Create when the change requires a new resource.
ProductChange ==
    /\ d.kind = "product"
    /\ \E plan \in Changes("product", d.attrs), net \in BOOLEAN, netRead \in BOOLEAN :
         IF RequiresNew("product", d.attrs, plan)
         THEN Replace("product", plan,
                      resourceStripeProductDelete(Entry(d.attrs), srv, net))
         ELSE Apply("update", "product", d.attrs, Entry(plan),
                    resourceStripeProductUpdate(d.attrs, Entry(plan), srv, net, netRead))

ProductRecreate ==
    /\ Recreating("product")
    /\ \E net \in BOOLEAN, netRead \in BOOLEAN :
         Apply("create", "product", last.old, Entry(todo[1]),
               resourceStripeProductCreate(Entry(todo[1]), srv, net, netRead))

\* Terraform applies a changed configuration of a webhook endpoint: Update in
\* place, or Delete and then Create when the change requires a new resource.
WebhookEndpointChange ==
    /\ d.kind = "webhook_endpoint"
    /\ \E plan \in Changes("webhook_endpoint", d.attrs), net \in BOOLEAN, netRead \in BOOLEAN :
         IF RequiresNew("webhook_endpoint", d.attrs, plan)
         THEN Replace("webhook_endpoint", plan,
                      resourceStripeWebhookEndpointDelete(Entry(d.attrs), srv, net))
         ELSE Apply("update", "webhook_endpoint", d.attrs, Entry(plan),
                    resourceStripeWebhookEndpointUpdate(d.attrs, Entry(plan), srv, net, netRead))

WebhookEndpointRecreate ==
    /\ Recreating("webhook_endpoint")
    /\ \E net \in BOOLEAN :
         Apply("create", "webhook_endpoint", last.old, Entry(todo[1]),
               resourceStripeWebhookEndpointCreate(Entry(todo[1]), srv, net))

\* Terraform applies a changed configuration of a plan: Update in
\* place, or Delete and then Create when the change requires a new resource.
PlanChange ==
    /\ d.kind = "plan"
    /\ \E plan \in Changes("plan", d.attrs), net \in BOOLEAN, netRead \in BOOLEAN :
         IF RequiresNew("plan", d.attrs, plan)
         THEN Replace("plan", plan,
                      resourceStripePlanDelete(Entry(d.attrs), srv, net))
         ELSE Apply("update", "plan", d.attrs, Entry(plan),
                    resourceStripePlanUpdate(d.attrs, Entry(plan), srv, net, netRead))

PlanRecreate ==
    /\ Recreating("plan")
    /\ \E net \in BOOLEAN :
         Apply("create", "plan", last.old, Entry(todo[1]),
               IF PlanSchemaValid(todo[1])
               THEN resourceStripePlanCreate(Entry(todo[1]), srv, net)
               ELSE SchemaError(Entry(todo[1]), srv))

\* Terraform applies a changed configuration of a price: Update in
\* place, or Delete and then Create when the change requires a new resource.
PriceChange ==
    /\ d.kind = "price"
    /\ \E plan \in Changes("price", d.attrs), net \in BOOLEAN, netRead \in BOOLEAN :
         IF RequiresNew("price", d.attrs, plan)
         THEN Replace("price", plan,
                      resourceStripePriceDelete(Entry(d.attrs), srv, net))
         ELSE Apply("update", "price", d.attrs, Entry(plan),
                    resourceStripePriceUpdate(d.attrs, Entry(plan), srv, net, netRead))

PriceRecreate ==
    /\ Recreating("price")
    /\ \E net \in BOOLEAN, netRead \in BOOLEAN :
         Apply("create", "price", last.old, Entry(todo[1]),
               IF PriceSchemaValid(todo[1])
               THEN resourceStripePriceCreate(Entry(todo[1]), srv, net, netRead)
               ELSE SchemaError(Entry(todo[1]), srv))

\* Resources whose configuration changes after they were created.
NextReplace ==
    \/ CouponCreate \/ ProductCreate \/ WebhookEndpointCreate
    \/ PlanCreate \/ PriceCreate
    \/ CouponChange \/ ProductChange \/ WebhookEndpointChange
    \/ PlanChange \/ PriceChange
    \/ CouponRecreate \/ ProductRecreate \/ WebhookEndpointRecreate
    \/ PlanRecreate \/ PriceRecreate

SpecReplace == Init /\ [][NextReplace]_vars

----------------------------------------------------------------------------
(* Properties                                                              *)

LastIs(op, kind) == last.op = op /\ last.kind = kind

\* The remote create call of the last Create succeeded: Create starts with no
\* remote object, and only a successful create call leaves one.
RemoteCreated == last.op = "create" /\ srv # None

\* The checks of coupon Create other than the one on duration pass.
CouponOtherFieldsValid(a) ==
    /\ a.duration_in_months \in {None, Some(0)} \/ a.duration = Some("repeating")
    /\ a.currency \in {None, Some("")} \/ a.amount_off \notin {None, Some(0)}
    /\ a.redeem_by \in {None, Some(""), Some("2030-01-01T00:00:00Z")}

\* C1: coupon Create with duration forever, once or repeating, the other
\* fields valid and the remote call succeeding, succeeds and stores the ID;
\* with any other duration string it returns a validation error and has made
\* no remote call.
C1_CouponDurationValidated ==
    LastIs("create", "coupon") =>
        LET a == last.entry.attrs
            duration == Get(a.duration, "")
        IN  /\ duration \notin {"forever", "once", "repeating"} =>
                /\ last.result.status = "validation"
                /\ last.calls = <<>>
                /\ d = NoResource /\ srv = None
            /\ (duration \in {"forever", "once", "repeating"}
                /\ CouponOtherFieldsValid(a)) =>
                /\ Len(last.calls) = 1 /\ last.calls[1].verb = "create"
                /\ last.calls[1].params.Duration = Some(duration)
                /\ RemoteCreated =>
                     /\ last.result = OkResult
                     /\ d.id = srv[1].ID /\ d.id # ""

\* A coupon Create with duration "weekly" has been rejected.
C1_Witness ==
    /\ LastIs("create", "coupon")
    /\ last.entry.attrs.duration = Some("weekly")
    /\ CouponOtherFieldsValid(last.entry.attrs)
    /\ last.result.status = "validation"

\* Some tier of the configured tier list has both up_to and up_to_inf set.
TierBoundsBothSet(a) ==
    /\ a.tier # None
    /\ \E i \in 1..Len(a.tier[1]) :
         a.tier[1][i].up_to # None /\ a.tier[1][i].up_to_inf # None

\* C2: price and plan Create with a tier that has both up_to and up_to_inf
\* set return a validation error and make no remote call.
C2_TierBoundsConflictRejected ==
    (/\ last.op = "create" /\ last.kind \in {"price", "plan"}
     /\ TierBoundsBothSet(last.entry.attrs)) =>
        /\ last.result.status = "validation"
        /\ last.calls = <<>>

\* C3: coupon Create with currency set and amount_off not set returns a
\* validation error and makes no remote call; with amount_off set (and the
\* other fields valid) the create request carries the currency.
C3_CouponCurrencyNeedsAmountOff ==
    LastIs("create", "coupon") =>
        LET a == last.entry.attrs
        IN  /\ (a.currency # None /\ a.amount_off = None) =>
                /\ last.result.status = "validation"
                /\ last.calls = <<>>
            /\ (/\ a.currency # None /\ a.amount_off # None
                /\ Get(a.duration, "") \in validDurations
                /\ a.duration_in_months \in {None, Some(0)}
                       \/ a.duration = Some("repeating")
                /\ a.redeem_by \in {None, Some(""), Some("2030-01-01T00:00:00Z")}) =>
                /\ Len(last.calls) = 1 /\ last.calls[1].verb = "create"
                /\ last.calls[1].params.Currency = a.currency
                /\ last.calls[1].params.AmountOff = a.amount_off

\* C4: tax rate Delete returns the remediation error, makes no remote call
\* and leaves the ID and every attribute as they were.
C4_TaxRateDeleteRefused ==
    LastIs("delete", "tax_rate") =>
        /\ last.result.status = "remediation"
        /\ last.calls = <<>>
        /\ last.post = last.entry
        /\ d = [kind |-> "tax_rate", id |-> last.entry.id, attrs |-> last.old]
        /\ d.id # "" /\ srv # None

\* A tax rate Delete has been refused.
C4_Witness ==
    /\ LastIs("delete", "tax_rate")
    /\ last.result.status = "remediation"
    /\ d.kind = "tax_rate" /\ d.attrs.display_name = Some("GST")

\* name is the only attribute of the planned coupon that differs from its
\* last-known value.
OnlyNameDiffers(old, new) ==
    /\ Get(old.name, "") # Get(new.name, "")
    /\ \A k \in DOMAIN new \ {"name"} : old[k] = new[k]

\* C5: a coupon Update in which only name differs sends one update request
\* that carries the new name and no other parameter.
C5_CouponUpdateNameOnly ==
    (LastIs("update", "coupon") /\ OnlyNameDiffers(last.old, last.entry.attrs)) =>
        /\ Len(last.calls) >= 1
        /\ last.calls[1].verb = "update" /\ last.calls[1].id = last.entry.id
        /\ last.calls[1].params =
              [EmptyCouponParams EXCEPT
                  !.Name = Some(Get(last.entry.attrs.name, ""))]

\* A coupon that has metadata has had only its name updated.
C5_Witness ==
    /\ LastIs("update", "coupon")
    /\ OnlyNameDiffers(last.old, last.entry.attrs)
    /\ last.entry.attrs.metadata # None
    /\ last.entry.attrs.name = Some("Summer")
    /\ last.result = OkResult

\* A valid tier: up_to and up_to_inf are not both set, and of each amount
\* only the integer or the decimal form is set.
ValidTier(t) ==
    /\ ~(t.up_to # None /\ t.up_to_inf # None)
    /\ ~(t.flat_amount # None /\ t.flat_amount_decimal # None)
    /\ ~(t.unit_amount # None /\ t.unit_amount_decimal # None)

ValidTierList(tiers) == \A i \in 1..Len(tiers) : ValidTier(tiers[i])

\* What a tier list reads back as: every value as configured (the zero value
\* for what was not set), and up_to_inf true exactly for an upper bound 0.
RoundTripped(tiers) ==
    [i \in 1..Len(tiers) |->
        [up_to |-> Some(Get(tiers[i].up_to, 0)),
         up_to_inf |-> Some(Get(tiers[i].up_to, 0) = 0),
         flat_amount |-> Some(Get(tiers[i].flat_amount, 0)),
         flat_amount_decimal |-> Some(Get(tiers[i].flat_amount_decimal, 0)),
         unit_amount |-> Some(Get(tiers[i].unit_amount, 0)),
         unit_amount_decimal |-> Some(Get(tiers[i].unit_amount_decimal, 0))]]

\* The last operation read the tiers of a price or a plan back from the API:
\* a Read, or the Read at the end of a price Create.
TiersReadBack ==
    /\ last.kind \in {"price", "plan"}
    /\ last.op = "read" \/ (last.op = "create" /\ last.kind = "price")
    /\ last.result = OkResult
    /\ Len(last.calls) >= 1 /\ last.calls[Len(last.calls)].verb = "get"
    /\ last.entry.attrs.tier # None

\* C6: a valid tier list of a price or a plan that was expanded into the
\* create request and stored by the API flattens to the same list: same
\* length and order, same up_to and amounts, up_to_inf true exactly for the
\* tiers with upper bound 0.
C6_TierListRoundTrip ==
    (TiersReadBack /\ ValidTierList(last.entry.attrs.tier[1])) =>
        /\ last.post.attrs.tier = Some(RoundTripped(last.entry.attrs.tier[1]))
        /\ d.attrs.tier = last.post.attrs.tier

\* A two-tier list, the first bounded with integer amounts including an
\* explicit 0, the second unbounded with decimal amounts, has been read back.
C6_Witness ==
    /\ TiersReadBack /\ ValidTierList(last.entry.attrs.tier[1])
    /\ Len(last.entry.attrs.tier[1]) = 2
    /\ last.entry.attrs.tier[1][1].up_to = Some(3)
    /\ last.entry.attrs.tier[1][1].flat_amount = Some(0)
    /\ last.entry.attrs.tier[1][2].up_to_inf = Some(TRUE)
    /\ last.entry.attrs.tier[1][2].unit_amount_decimal = Some(550)
    /\ last.post.attrs.tier[1][2].up_to_inf = Some(TRUE)

\* C7: a Create whose remote create call succeeds stores the returned ID and
\* then reads that ID before it returns; a Create whose remote create call
\* fails returns the remote error.
C7_CreateStoresIdThenReads ==
    (last.op = "create" /\ Len(last.calls) >= 1) =>
        /\ last.calls[1].verb = "create"
        /\ IF RemoteCreated
           THEN /\ last.post.id = srv[1].ID
                /\ Len(last.calls) = 2
                /\ last.calls[2].verb = "get" /\ last.calls[2].id = srv[1].ID
           ELSE last.result = RemoteError /\ Len(last.calls) = 1

\* The attributes of a resource as the remote object has them.
ServerAttrs(kind, o) ==
    CASE kind = "coupon" ->
           [amount_off |-> o.AmountOff, currency |-> o.Currency,
            duration |-> o.Duration, duration_in_months |-> o.DurationInMonths,
            livemode |-> o.Livemode, max_redemptions |-> o.MaxRedemptions,
            metadata |-> o.Metadata, name |-> o.Name, percent_off |-> o.PercentOff,
            times_redeemed |-> o.TimesRedeemed, valid |-> o.Valid,
            created |-> o.Created]
      [] kind = "tax_rate" ->
           [active |-> o.Active, created |-> o.Created,
            description |-> o.Description, display_name |-> o.DisplayName,
            inclusive |-> o.Inclusive, jurisdiction |-> o.Jurisdiction,
            livemode |-> o.Livemode, metadata |-> o.Metadata,
            percentage |-> o.Percentage]
      [] kind = "product" ->
           [product_id |-> o.ID, name |-> o.Name, type |-> o.Type,
            active |-> o.Active, attributes |-> o.Attributes,
            metadata |-> o.Metadata,
            statement_descriptor |-> o.StatementDescriptor,
            unit_label |-> o.UnitLabel]
      [] kind = "webhook_endpoint" ->
           [url |-> o.URL, enabled_events |-> o.EnabledEvents,
            connect |-> o.Application # ""]
      [] kind = "plan" ->
           [plan_id |-> o.ID, active |-> o.Active, amount |-> o.Amount,
            amount_decimal |-> o.AmountDecimal, currency |-> o.Currency,
            interval |-> o.Interval, interval_count |-> o.IntervalCount,
            metadata |-> o.Metadata, nickname |-> o.Nickname,
            product |-> o.Product.ID, tiers_mode |-> o.TiersMode,
            trial_period_days |-> o.TrialPeriodDays, usage_type |-> o.UsageType]
      [] kind = "price" ->
           [price_id |-> o.ID, active |-> o.Active, created |-> o.Created,
            currency |-> o.Currency, livemode |-> o.Livemode,
            metadata |-> o.Metadata, nickname |-> o.Nickname,
            unit_amount |-> o.UnitAmount,
            unit_amount_decimal |-> o.UnitAmountDecimal,
            tiers_mode |-> o.TiersMode, billing_scheme |-> o.BillingScheme,
            tax_behavior |-> o.TaxBehavior]

\* C8: after a successful Read every attribute holds the value the remote
\* object has for it; the recurring interval of a price is the remote one.
C8_ReadOverwritesEveryField ==
    (last.op = "read" /\ last.result = OkResult) =>
        /\ \A k \in DOMAIN ServerAttrs(d.kind, srv[1]) :
              d.attrs[k] = Some(ServerAttrs(d.kind, srv[1])[k])
        /\ (d.kind = "price" /\ srv[1].Recurring # None) =>
              /\ d.attrs.recurring # None
              /\ Some(d.attrs.recurring[1].interval) = srv[1].Recurring[1].Interval

\* For each attribute that has a parameter in the update request: the
\* parameter and the zero value of the attribute's type.
ParamOf(kind) ==
    CASE kind = "coupon" ->
           [name |-> <<"Name", "">>, metadata |-> <<"Metadata", {}>>]
      [] kind = "tax_rate" ->
           [active |-> <<"Active", FALSE>>, description |-> <<"Description", "">>,
            display_name |-> <<"DisplayName", "">>,
            inclusive |-> <<"Inclusive", FALSE>>,
            jurisdiction |-> <<"Jurisdiction", "">>,
            metadata |-> <<"Metadata", {}>>, percentage |-> <<"Percentage", 0>>]
      [] kind = "product" ->
           [name |-> <<"Name", "">>, type |-> <<"Type", "">>,
            active |-> <<"Active", FALSE>>, attributes |-> <<"Attributes", <<>> >>,
            metadata |-> <<"Metadata", {}>>,
            statement_descriptor |-> <<"StatementDescriptor", "">>,
            unit_label |-> <<"UnitLabel", "">>]
      [] kind = "webhook_endpoint" ->
           [url |-> <<"URL", "">>, enabled_events |-> <<"EnabledEvents", <<>> >>,
            connect |-> <<"Connect", FALSE>>]
      [] kind = "plan" ->
           [plan_id |-> <<"ID", "">>, active |-> <<"Active", FALSE>>,
            metadata |-> <<"Metadata", {}>>, nickname |-> <<"Nickname", "">>,
            product |-> <<"ProductID", "">>,
            trial_period_days |-> <<"TrialPeriodDays", 0>>]
      [] kind = "price" ->
           [active |-> <<"Active", FALSE>>, metadata |-> <<"Metadata", {}>>,
            nickname |-> <<"Nickname", "">>,
            tax_behavior |-> <<"TaxBehavior", "">>]

\* The attributes among those that the schema marks force-new.
ForceNewAttrs(kind) ==
    CASE kind = "plan" -> {"plan_id"}
      [] kind = "webhook_endpoint" -> {"connect"}
      [] OTHER -> {}

\* Attribute k of the last Update differs from its last-known value.
Differs(k) ==
    Get(last.old[k], ParamOf(last.kind)[k][2])
        # Get(last.entry.attrs[k], ParamOf(last.kind)[k][2])

UpdateRequestSent ==
    last.op = "update" /\ Len(last.calls) >= 1 /\ last.calls[1].verb = "update"

\* C9: every attribute that is not force-new and differs from its last-known
\* value at Update is in the update request with its new value; a changed
\* recurring of a price is in the request.
C9_ChangedFieldsAreSent ==
    last.op = "update" =>
        /\ UpdateRequestSent
        /\ \A k \in DOMAIN ParamOf(last.kind) \ ForceNewAttrs(last.kind) :
              Differs(k) =>
                 last.calls[1].params[ParamOf(last.kind)[k][1]]
                    = Some(Get(last.entry.attrs[k], ParamOf(last.kind)[k][2]))
        /\ (last.kind = "price" /\ last.old.recurring # last.entry.attrs.recurring) =>
              last.calls[1].params.Recurring # None

\* C10: every parameter present in an update request belongs to an attribute
\* that differs from its last-known value; an Update in which no such
\* attribute differs sends a request with no parameter set.
C10_UnchangedFieldsAreOmitted ==
    last.op = "update" =>
        /\ UpdateRequestSent
        /\ \A f \in DOMAIN last.calls[1].params :
              last.calls[1].params[f] # None =>
                 \E k \in DOMAIN ParamOf(last.kind) :
                    ParamOf(last.kind)[k][1] = f /\ Differs(k)

\* A tax rate Update in which only inclusive and percentage differ has sent
\* a request with no parameter set.
C10_Witness ==
    /\ UpdateRequestSent /\ last.kind = "tax_rate"
    /\ Differs("percentage") /\ ~Differs("active") /\ ~Differs("display_name")
    /\ last.calls[1].params = EmptyTaxRateParams

\* The Read handler of a kind of resource.
ReadOf(kind, dd, s, net) ==
    CASE kind = "coupon" -> resourceStripeCouponRead(dd, s, net, <<>>)
      [] kind = "tax_rate" -> resourceStripeTaxRateRead(dd, s, net, <<>>)
      [] kind = "product" -> resourceStripeProductRead(dd, s, net, <<>>)
      [] kind = "webhook_endpoint" ->
           resourceStripeWebhookEndpointRead(dd, s, net, <<>>)
      [] kind = "plan" -> resourceStripePlanRead(dd, s, net, <<>>)
      [] kind = "price" -> resourceStripePriceRead(dd, s, net, <<>>)

\* C11: an Update whose remote update call succeeds then reads the same ID,
\* and what Update returns (diagnostics and resource data) is what that Read
\* returns; an Update whose remote update call fails makes no further call
\* and returns the remote error.
C11_UpdateEndsWithRead ==
    last.op = "update" =>
        /\ Len(last.calls) >= 1
        /\ last.calls[1].verb = "update" /\ last.calls[1].id = last.entry.id
        /\ IF last.calls[1].ok
           THEN /\ Len(last.calls) = 2
                /\ last.calls[2].verb = "get"
                /\ last.calls[2].kind = last.kind
                /\ last.calls[2].id = last.entry.id
                /\ LET read == ReadOf(last.kind, last.entry, srv, last.calls[2].ok)
                   IN  last.result = read.result /\ last.post = read.d
           ELSE Len(last.calls) = 1 /\ last.result = RemoteError

\* A tax rate Update has sent a new description and
\* read the tax rate back.
C11_Witness ==
    /\ LastIs("update", "tax_rate")
    /\ Len(last.calls) = 2 /\ last.calls[1].ok /\ last.calls[2].ok
    /\ last.calls[1].params.Description = Some("sales tax")
    /\ last.post.attrs.description = Some("sales tax")
    /\ last.result = OkResult

\* C12: Delete of a price and of a plan sends one update request that sets
\* active to false and no delete request; Delete of a coupon, a product and a
\* webhook endpoint sends a delete request.
C12_SoftAndHardDeletes ==
    last.op = "delete" =>
        /\ last.kind \in {"price", "plan"} =>
              /\ Len(last.calls) = 1
              /\ last.calls[1].verb = "update" /\ last.calls[1].id = last.entry.id
              /\ last.calls[1].params.Active = Some(FALSE)
        /\ last.kind \in {"coupon", "product", "webhook_endpoint"} =>
              /\ Len(last.calls) = 1
              /\ last.calls[1].verb = "delete" /\ last.calls[1].id = last.entry.id

\* Some remote call of the last operation returned an error.
SomeCallFailed == \E i \in 1..Len(last.calls) : ~last.calls[i].ok

\* C13: an operation in which a remote call returns an error returns that
\* error, and its resource data (the ID and every attribute) is on return
\* what it was when the operation started.
C13_RemoteErrorLeavesRecord ==
    SomeCallFailed =>
        /\ last.result = RemoteError
        /\ last.post = last.entry

\* C14: an operation that returns a validation error has made no remote
\* call, so nothing was created remotely and no resource is kept.
C14_ValidationBeforeRemoteCall ==
    last.result.status = "validation" =>
        /\ last.calls = <<>>
        /\ last.post = last.entry
        /\ last.op = "create" => (srv = None /\ d = NoResource)

\* A price Create has rejected a recurring interval_count that is not a
\* number, after its tiers were expanded without error.
C14_Witness ==
    /\ LastIs("create", "price")
    /\ last.entry.attrs.recurring = Some([interval |-> "week", interval_count |-> "many"])
    /\ last.entry.attrs.tier # None
    /\ last.result = ValidationError("interval_count")
    /\ last.calls = <<>>

\* The last operation is a Create of a price or a plan that sent its create
\* request.
PricingCreateSent ==
    /\ last.op = "create" /\ last.kind \in {"price", "plan"}
    /\ Len(last.calls) >= 1 /\ last.calls[1].verb = "create"

\* The tier parameters of the create request, one per configured tier.
SentTiers ==
    LET tiers == Get(last.calls[1].params.Tiers, <<>>)
    IN  [i \in 1..Len(tiers) |-> tiers[i][1]]

\* C15: in a create request an amount is present exactly when the attribute
\* is set, with the value set (0 included): unit_amount and
\* unit_amount_decimal of a price, flat_amount and unit_amount of each tier
\* of a price and of a plan.
C15_AmountsTestedByPresence ==
    PricingCreateSent =>
        LET a == last.entry.attrs
            p == last.calls[1].params
            tiers == Get(a.tier, <<>>)
        IN  /\ last.kind = "price" =>
                /\ p.UnitAmount = a.unit_amount
                /\ p.UnitAmountDecimal = a.unit_amount_decimal
            /\ Len(SentTiers) = Len(tiers)
            /\ \A i \in 1..Len(tiers) :
                  /\ SentTiers[i].FlatAmount = tiers[i].flat_amount
                  /\ SentTiers[i].UnitAmount = tiers[i].unit_amount

\* Of the integer form int and the decimal form dec of an amount in a create
\* request: exactly one is populated.
ExactlyOneForm(int, dec) == (int # None) # (dec # None)

AtMostOneForm(int, dec, aInt, aDec) ==
    /\ ~(int # None /\ dec # None)
    /\ (GetOk(aInt, 0) \/ GetOk(aDec, 0)) => ExactlyOneForm(int, dec)

C17_DurationInMonthsOnlyWhenRepeating ==
    LastIs("create", "coupon") =>
        LET a == last.entry.attrs
        IN  /\ \A i \in 1..Len(last.calls) :
                  last.calls[i].params.DurationInMonths # None =>
                     a.duration = Some("repeating")
            /\ (a.duration_in_months # None
                /\ Get(a.duration, "") \in {"once", "forever"}) =>
                  /\ last.result.status = "validation"
                  /\ last.calls = <<>>

\* Attribute k has the same value in old and in new.
SameValue(kind, old, new, k) ==
    Get(old[k], ZeroValue(Schema(kind).types[k]))
        = Get(new[k], ZeroValue(Schema(kind).types[k]))

\* C18: a configuration change in a force-new attribute (one the schema
\* marks ForceNew, or the tax_behavior of a price whose old value is not
\* "unspecified") is never applied by Update: the resource is destroyed and
\* created again from the new configuration.  Every Update leaves the
\* force-new attributes as they were and its request does not carry them.
C18_ForceNewNeverUpdatedInPlace ==
    /\ last.op = "update" =>
          /\ ~RequiresNew(last.kind, last.old, last.entry.attrs)
          /\ \A k \in Schema(last.kind).forceNew :
                SameValue(last.kind, last.old, last.entry.attrs, k)
          /\ Len(last.calls) >= 1 /\ last.calls[1].verb = "update"
          /\ last.kind = "plan" => last.calls[1].params.ID = None
          /\ last.kind = "webhook_endpoint" => last.calls[1].params.Connect = None
          /\ (last.kind = "price" /\ last.calls[1].params.TaxBehavior # None) =>
                Get(last.old.tax_behavior, "") = "unspecified"
    /\ todo # None =>
          /\ last.op = "delete" /\ last.result = OkResult
          /\ RequiresNew(last.kind, last.old, todo[1])
          /\ d = NoResource
    /\ (last.op = "create" /\ last.old # <<>>) =>
          /\ RequiresNew(last.kind, last.old, last.entry.attrs)
          /\ \A i \in 1..Len(last.calls) :
                last.calls[i].verb \in {"create", "get"}

\* A plan whose plan_id changed has been destroyed and created again under
\* the new ID.
C18_Witness ==
    /\ LastIs("create", "plan") /\ last.old # <<>>
    /\ last.entry.attrs.plan_id = Some("plan_new")
    /\ Get(last.old.plan_id, "") # "plan_new"
    /\ last.result = OkResult
    /\ last.calls[1].params.ID = Some("plan_new")
    /\ d.id = "plan_new"

\* The last operation has flattened the tiers of the remote price or plan
\* into the tier attribute: a Read, or the Read at the end of a price Create.
TiersFlattened ==
    /\ last.kind \in {"price", "plan"}
    /\ last.op = "read" \/ (last.op = "create" /\ last.kind = "price")
    /\ last.result = OkResult
    /\ Len(last.calls) >= 1 /\ last.calls[Len(last.calls)].verb = "get"

\* C19: the flattened tier list has the length and the order of the remote
\* tier list; tier i has up_to_inf true exactly when the remote upper bound
\* is 0, and up_to and the four amounts as the remote tier has them; no
\* flattened tier has a non-zero up_to together with up_to_inf true.
C19_FlattenTiers ==
    TiersFlattened =>
        LET in == srv[1].Tiers
            out == last.post.attrs.tier
        IN  /\ out # None /\ Len(out[1]) = Len(in)
            /\ \A i \in 1..Len(in) :
                  /\ out[1][i].up_to_inf = Some(in[i].UpTo = 0)
                  /\ out[1][i].up_to = Some(in[i].UpTo)
                  /\ out[1][i].flat_amount = Some(in[i].FlatAmount)
                  /\ out[1][i].flat_amount_decimal = Some(in[i].FlatAmountDecimal)
                  /\ out[1][i].unit_amount = Some(in[i].UnitAmount)
                  /\ out[1][i].unit_amount_decimal = Some(in[i].UnitAmountDecimal)
                  /\ ~(out[1][i].up_to # Some(0) /\ out[1][i].up_to_inf = Some(TRUE))

\* A plan with a bounded first tier and an unbounded second tier, with
\* different amounts, has been read.
C19_Witness ==
    /\ TiersFlattened /\ LastIs("read", "plan")
    /\ Len(srv[1].Tiers) = 2
    /\ srv[1].Tiers[1].UpTo = 3 /\ srv[1].Tiers[2].UpTo = 0
    /\ srv[1].Tiers[1].UnitAmount = 5 /\ srv[1].Tiers[2].UnitAmountDecimal = 550
    /\ last.post.attrs.tier[1][1].up_to_inf = Some(FALSE)
    /\ last.post.attrs.tier[1][2].up_to_inf = Some(TRUE)

\* The calls of the last operation that ask the API to change something.
MutatingCalls ==
    {i \in 1..Len(last.calls) : last.calls[i].verb \in {"create", "update", "delete"}}

\* C20: a Create, Update or Delete makes at most one create, update or
\* delete call, and no operation makes a call after one of its calls has
\* returned an error: only the last call of an operation can have failed.
C20_NoRetry ==
    /\ last.op \in {"create", "update", "delete"} => Cardinality(MutatingCalls) <= 1
    /\ last.op = "read" => (MutatingCalls = {} /\ Len(last.calls) = 1)
    /\ \A i \in 1..Len(last.calls) : ~last.calls[i].ok => i = Len(last.calls)
    /\ Len(last.calls) <= 2

\* A plan Update whose update call failed has made that one call only.
C20_Witness ==
    /\ LastIs("update", "plan")
    /\ Len(last.calls) = 1 /\ ~last.calls[1].ok
    /\ last.calls[1].params.Nickname = Some("Gold")
    /\ last.result = RemoteError

\* The last operation made a remote call of this verb that the API answered.
CallSucceeded(verb) ==
    \E i \in 1..Len(last.calls) : last.calls[i].verb = verb /\ last.calls[i].ok

\* The remote call a Delete makes: a price is deactivated by an update, the
\* other kinds are deleted.
DeleteVerb(kind) == IF kind = "price" THEN "update" ELSE "delete"

\* C21: for a coupon, plan, price, product or webhook endpoint, the ID goes
\* from empty to non-empty only in a Create whose remote create call
\* succeeded, goes from non-empty to empty only in a Delete whose remote call
\* succeeded, and is on return what it was at entry in every Read, every
\* Update and every operation that returns an error.
C21_IdLifecycle ==
    last.kind \in {"coupon", "plan", "price", "product", "webhook_endpoint"} =>
        /\ (last.entry.id = "" /\ last.post.id # "") =>
              (last.op = "create" /\ CallSucceeded("create"))
        /\ (last.entry.id # "" /\ last.post.id = "") =>
              (last.op = "delete" /\ CallSucceeded(DeleteVerb(last.kind)))
        /\ last.op \in {"read", "update"} => last.post.id = last.entry.id
        /\ last.result # OkResult => last.post.id = last.entry.id

ProductTypesAccepted == {"good", "service"}

\* C22: every remote request of a product operation that carries a type
\* carries "good" or "service", and a product Create or Update whose
\* configured type is anything else returns a validation error without
\* having made a remote call.
C22_ProductTypeValidated ==
    last.kind = "product" =>
        /\ \A i \in 1..Len(last.calls) :
              last.calls[i].params.Type # None =>
                  last.calls[i].params.Type[1] \in ProductTypesAccepted
        /\ (/\ last.op \in {"create", "update"}
            /\ Get(last.entry.attrs.type, "") \notin ProductTypesAccepted) =>
              (last.result.status = "validation" /\ last.calls = <<>>)

====
